---- MODULE Spec2Model ----
(***************************************************************************)
(* Skill-gap analyzer: the vocabulary store and text normalizer of         *)
(* python-service/data_processor.py, the matching engine of                *)
(* python-service/skill_matcher.py and the endpoints of                    *)
(* python-service/api_server.py that take a strategy or use the cache.     *)
(*                                                                         *)
(* Text is a sequence of characters, each character a one-token string.    *)
(* Three tokens stand for non-ASCII characters: "U+0130" (capital I with   *)
(* dot), "U+0307" (combining dot above) and "U+00A0" (no-break space).     *)
(* Python's None is the distinguished value None.  Floats are exact        *)
(* rationals <<numerator, denominator>> in lowest terms.                   *)
(***************************************************************************)
EXTENDS Integers, Sequences, FiniteSets, TLC

VARIABLES
    skills_db,            \* DataProcessor.skills_db: <<category, skills>> in dict order
    canonical_skills,     \* DataProcessor.canonical_skills
    skill_categories,     \* DataProcessor.skill_categories: <<skill, category>> in dict order
    skill_synonyms,       \* DataProcessor.skill_synonyms: <<canonical, variants>> in dict order
    variant_to_canonical, \* DataProcessor.variant_to_canonical: <<variant, canonical>> in dict order
    sorted_variants,      \* DataProcessor.sorted_variants
    recommendations,      \* DataProcessor.recommendations: <<skill, entry>> in dict order
    config,               \* SkillMatcher.config
    trained,              \* which trained behaviour the loaded models (TF-IDF, SBERT, spaCy) have
    op,                   \* the last operation called
    args,                 \* its arguments
    result,               \* what it returned, or the exception it raised
    threads,              \* the matching call of every worker thread and how far it has run
    redis_client          \* api_server.redis_client, with the keys the Redis server holds

vars == <<skills_db, canonical_skills, skill_categories, skill_synonyms,
          variant_to_canonical, sorted_variants, recommendations, config, trained, op, args, result,
          threads, redis_client>>

(***************************************************************************)
(* Characters                                                              *)
(***************************************************************************)

\* The characters of the model in code-point order (ord()).
CodePoints ==
    <<"\t", "\n", " ", "!", "#", "+", ",", "-", ".", "/",
      "0", "1", "2", "3", "4", "5", "6", "7", "8", "9", ":", ";",
      "A", "B", "C", "D", "E", "F", "G", "H", "I", "J", "K", "L", "M",
      "N", "O", "P", "Q", "R", "S", "T", "U", "V", "W", "X", "Y", "Z", "_",
      "a", "b", "c", "d", "e", "f", "g", "h", "i", "j", "k", "l", "m",
      "n", "o", "p", "q", "r", "s", "t", "u", "v", "w", "x", "y", "z",
      "U+00A0", "U+0130", "U+0307">>

\* list.index: the first position of x in seq, 0 when it is not there
index_of(seq, x) ==
    IF \E i \in 1..Len(seq) : seq[i] = x
    THEN CHOOSE i \in 1..Len(seq) : seq[i] = x /\ \A j \in 1..(i - 1) : seq[j] # x
    ELSE 0

\* list(...): the items of a sequence that a rule gives, one after another
list(items) == items \o <<>>

\* the positions where the string part occurs in text
occurrences(text, part) ==
    {i \in 1..(Len(text) - Len(part) + 1) : SubSeq(text, i, i + Len(part) - 1) = part}

\* part in text, for two str values
str_contains(text, part) == occurrences(text, part) # {}

OrdTable ==
    [c \in {CodePoints[i] : i \in 1..Len(CodePoints)} |->
        CHOOSE i \in 1..Len(CodePoints) : CodePoints[i] = c]

ord(c) == OrdTable[c]

LowerLetters ==
    {"a", "b", "c", "d", "e", "f", "g", "h", "i", "j", "k", "l", "m",
     "n", "o", "p", "q", "r", "s", "t", "u", "v", "w", "x", "y", "z"}

UpperLetters ==
    {"A", "B", "C", "D", "E", "F", "G", "H", "I", "J", "K", "L", "M",
     "N", "O", "P", "Q", "R", "S", "T", "U", "V", "W", "X", "Y", "Z"}

Digits == {"0", "1", "2", "3", "4", "5", "6", "7", "8", "9"}

\* [\+\.\#\-\/] of the character class at data_processor.py:385
TechSymbols == {"+", ".", "#", "-", "/"}

\* \s of a str pattern, which is also what str.strip() strips
Whitespace == {" ", "\t", "\n", "U+00A0"}

\* \w of a str pattern: letters (any script), digits and the underscore
WordChars == LowerLetters \cup UpperLetters \cup Digits \cup {"_", "U+0130"}

\* str.lower() of one character; U+0130 lowers to the two characters i, U+0307
lower_char(c) ==
    IF c \in UpperLetters THEN <<CodePoints[ord(c) + 27]>>
    ELSE IF c = "U+0130" THEN <<"i", "U+0307">>
    ELSE <<c>>

\* str.lower(), by halves
RECURSIVE lower(_)
lower(text) ==
    IF Len(text) = 0 THEN <<>>
    ELSE IF Len(text) = 1 THEN lower_char(text[1])
    ELSE LET half == Len(text) \div 2
         IN  lower(SubSeq(text, 1, half)) \o lower(SubSeq(text, half + 1, Len(text)))

None == <<"None">>

(***************************************************************************)
(* DataProcessor.normalize_text                                            *)
(***************************************************************************)

\* re.sub(r"[^a-z0-9\+\.\#\-\/\s]", " ", text)
sub_other_chars(text) ==
    list([i \in 1..Len(text) |->
        IF text[i] \in LowerLetters \cup Digits \cup TechSymbols \cup Whitespace
        THEN text[i] ELSE " "])

\* re.sub(r"\s+", " ", text): every maximal run of whitespace becomes one space
sub_whitespace_runs(text) ==
    LET starts == SelectSeq(list([i \in 1..Len(text) |-> i]),
                     LAMBDA i : text[i] \notin Whitespace
                                \/ i = 1 \/ text[i - 1] \notin Whitespace)
    IN  list([k \in 1..Len(starts) |->
            IF text[starts[k]] \in Whitespace THEN " " ELSE text[starts[k]]])

\* str.strip()
strip(text) ==
    LET inked == {i \in 1..Len(text) : text[i] \notin Whitespace}
    IN  IF inked = {} THEN <<>>
        ELSE SubSeq(text,
                    CHOOSE i \in inked : \A j \in inked : i <= j,
                    CHOOSE i \in inked : \A j \in inked : i >= j)

\* The steps of normalize_text in the wrong order: whitespace runs are collapsed
\* before the other characters are replaced by spaces.
normalize_text_collapse_first(text) ==
    IF text = <<>> \/ text = None THEN <<>>
    ELSE sub_other_chars(strip(sub_whitespace_runs(lower(text))))

\* normalize_text without the final strip().
normalize_text_no_strip(text) ==
    IF text = <<>> \/ text = None THEN <<>>
    ELSE sub_whitespace_runs(sub_other_chars(lower(text)))

normalize_text(text) ==
    IF text = <<>> \/ text = None THEN <<>>
    ELSE strip(sub_whitespace_runs(sub_other_chars(lower(text))))

(***************************************************************************)
(* Python values: floats, dicts, sorting                                   *)
(***************************************************************************)

RECURSIVE gcd(_, _)
gcd(a, b) == IF b = 0 THEN a ELSE gcd(b, a % b)

abs(n) == IF n < 0 THEN -n ELSE n

\* The float n/d (d # 0), in lowest terms with a positive denominator.
Rat(n, d) ==
    LET g == gcd(abs(n), abs(d))
        s == IF d < 0 THEN -1 ELSE 1
    IN  <<(s * n) \div g, (s * d) \div g>>

rat_add(x, y) == Rat(x[1] * y[2] + y[1] * x[2], x[2] * y[2])
rat_mul(x, y) == Rat(x[1] * y[1], x[2] * y[2])
rat_div(x, y) == Rat(x[1] * y[2], x[2] * y[1])
rat_le(x, y) == x[1] * y[2] <= y[1] * x[2]
rat_lt(x, y) == x[1] * y[2] < y[1] * x[2]
rat_min(x, y) == IF rat_lt(y, x) THEN y ELSE x

\* A dict is the sequence of its <<key, value>> items in insertion order.
dict_index(d, k) == index_of(list([i \in 1..Len(d) |-> d[i][1]]), k)
dict_has(d, k) == dict_index(d, k) # 0
dict_get(d, k, default) == IF dict_has(d, k) THEN d[dict_index(d, k)][2] ELSE default

\* The dict that the assignments d[k] = v of the <<k, v>> items, made in order,
\* build from an empty dict: a key stands where it was first assigned and holds
\* the value it was last assigned.
dict_from_items(items) ==
    LET firsts == SelectSeq(list([i \in 1..Len(items) |-> i]),
                     LAMBDA i : \A j \in 1..(i - 1) : items[j][1] # items[i][1])
        last(k) == CHOOSE i \in 1..Len(items) :
                       items[i][1] = k /\ \A j \in (i + 1)..Len(items) : items[j][1] # k
    IN  list([n \in 1..Len(firsts) |->
            <<items[firsts[n]][1], items[last(items[firsts[n]][1])][2]>>])

dict_keys(d) == list([i \in 1..Len(d) |-> d[i][1]])
dict_values(d) == list([i \in 1..Len(d) |-> d[i][2]])

ToSet(seq) == {seq[i] : i \in 1..Len(seq)}

\* a < b for two str values: lexicographic by code point
str_lt(a, b) ==
    LET differ == {i \in 1..Len(a) : i <= Len(b) /\ a[i] # b[i]}
        first == CHOOSE i \in differ : \A j \in differ : i <= j
    IN  IF differ = {} THEN Len(a) < Len(b)
        ELSE ord(a[first]) < ord(b[first])

\* sorted(seq, key=...) and list.sort(key=...): the stable ascending sort of the
\* <<key, value>> items by their float key (reverse=True is the negated key:
\* Python keeps equal keys in their original order in both directions)
sort_by_key(items) ==
    LET place(i) ==
            Cardinality({j \in 1..Len(items) :
                \/ rat_lt(items[j][1], items[i][1])
                \/ items[j][1] = items[i][1] /\ j < i}) + 1
    IN  list([p \in 1..Len(items) |-> items[CHOOSE i \in 1..Len(items) : place(i) = p]])

\* sorted(list(a_set)) of str values
sorted_strs(S) ==
    LET place(x) == Cardinality({y \in S : str_lt(y, x)}) + 1
    IN  list([p \in 1..Cardinality(S) |-> CHOOSE x \in S : place(x) = p])

(***************************************************************************)
(* The vocabulary tables                                                   *)
(***************************************************************************)

s_python == <<"p", "y", "t", "h", "o", "n">>
s_javascript == <<"j", "a", "v", "a", "s", "c", "r", "i", "p", "t">>
s_java == <<"j", "a", "v", "a">>
s_cpp == <<"c", "+", "+">>
s_csharp == <<"c", "#">>
s_react == <<"r", "e", "a", "c", "t">>
s_node_js == <<"n", "o", "d", "e", ".", "j", "s">>
s_node == <<"n", "o", "d", "e">>
s_react_native == <<"r", "e", "a", "c", "t", " ", "n", "a", "t", "i", "v", "e">>
s_docker == <<"d", "o", "c", "k", "e", "r">>
s_aws == <<"a", "w", "s">>
s_machine_learning == <<"m", "a", "c", "h", "i", "n", "e", " ", "l", "e", "a", "r", "n", "i", "n", "g">>
s_git == <<"g", "i", "t">>
s_reactjs == <<"r", "e", "a", "c", "t", "j", "s">>
s_react_js == <<"r", "e", "a", "c", "t", ".", "j", "s">>
s_react_js_sp == <<"r", "e", "a", "c", "t", " ", "j", "s">>
s_nodejs == <<"n", "o", "d", "e", "j", "s">>
s_node_js_sp == <<"n", "o", "d", "e", " ", "j", "s">>
s_js == <<"j", "s">>
s_python3 == <<"p", "y", "t", "h", "o", "n", "3">>
s_python_3 == <<"p", "y", "t", "h", "o", "n", " ", "3">>
s_cpp_word == <<"c", "p", "p">>
s_csharp_word == <<"c", "s", "h", "a", "r", "p">>
s_dotnet == <<".", "n", "e", "t">>
s_version_control == <<"v", "e", "r", "s", "i", "o", "n", " ", "c", "o", "n", "t", "r", "o", "l">>

\* An excerpt of the category table of _load_skills_database.  It keeps the
\* table's order and its repeated entries ("c++" and "c#" are listed under
\* programming_languages and again under game_dev).
CodeSkillsTable ==
    << <<"programming_languages", <<s_python, s_javascript, s_java, s_cpp, s_csharp>> >>,
       <<"frontend", <<s_react>> >>,
       <<"backend", <<s_node_js>> >>,
       <<"mobile", <<s_react_native>> >>,
       <<"game_dev", <<s_cpp, s_csharp>> >> >>

\* An excerpt of the synonym table of _load_skills_database, in its order.
\* "git" has synonyms and is in no category.
CodeSynonymsTable ==
    << <<s_react, <<s_react, s_reactjs, s_react_js, s_react_js_sp>> >>,
       <<s_node_js, <<s_node, s_nodejs, s_node_js, s_node_js_sp>> >>,
       <<s_javascript, <<s_javascript, s_js>> >>,
       <<s_python, <<s_python, s_python3, s_python_3>> >>,
       <<s_cpp, <<s_cpp, s_cpp_word>> >>,
       <<s_csharp, <<s_csharp, s_csharp_word, s_dotnet>> >>,
       <<s_git, <<s_git, s_version_control>> >> >>

\* The vocabulary of the end-to-end scenarios: python, react, docker, aws and
\* machine learning in the categories the code gives them, "react" with the
\* synonyms react, reactjs, react.js.
ScenarioSkillsTable ==
    << <<"programming_languages", <<s_python>> >>,
       <<"frontend", <<s_react>> >>,
       <<"cloud_devops", <<s_aws, s_docker>> >>,
       <<"data_science_ml", <<s_machine_learning>> >> >>

ScenarioSynonymsTable ==
    << <<s_react, <<s_react, s_reactjs, s_react_js>> >> >>

\* A vocabulary with "node" and "node.js" as two distinct canonical skills.
NodeSkillsTable ==
    << <<"backend", <<s_node_js, s_node>> >> >>

NodeSynonymsTable ==
    << <<s_node_js, <<s_node_js, s_nodejs>> >> >>

\* The specific entries of _load_recommendations, for the skills of the tables
\* above that have one.  "courses" stands for the list of course names.
SpecificRecommendations ==
    << <<s_python, [courses |-> "listed", difficulty |-> "beginner", time_estimate |-> "3-6 months"]>>,
       <<s_javascript, [courses |-> "listed", difficulty |-> "beginner", time_estimate |-> "3-6 months"]>>,
       <<s_java, [courses |-> "listed", difficulty |-> "intermediate", time_estimate |-> "4-6 months"]>>,
       <<s_react, [courses |-> "listed", difficulty |-> "intermediate", time_estimate |-> "2-3 months"]>>,
       <<s_node_js, [courses |-> "listed", difficulty |-> "intermediate", time_estimate |-> "2-3 months"]>>,
       <<s_docker, [courses |-> "listed", difficulty |-> "intermediate", time_estimate |-> "1-2 months"]>>,
       <<s_aws, [courses |-> "listed", difficulty |-> "intermediate", time_estimate |-> "3-6 months"]>>,
       <<s_machine_learning, [courses |-> "listed", difficulty |-> "advanced", time_estimate |-> "4-6 months"]>> >>

DefaultRecommendation ==
    [courses |-> "search", difficulty |-> "varies", time_estimate |-> "1-3 months"]

\* the empty dict {}
EmptyDict == [empty |-> TRUE]

(***************************************************************************)
(* DataProcessor: building the vocabulary store                            *)
(***************************************************************************)

\* for category, skills in skills_db.items(): canonical_skills.extend(skills)
RECURSIVE flatten_skills(_)
flatten_skills(table) ==
    IF table = <<>> THEN <<>>
    ELSE Head(table)[2] \o flatten_skills(Tail(table))

\* for category, skills: for skill in skills: skill_categories[skill] = category
RECURSIVE category_items(_)
category_items(table) ==
    IF table = <<>> THEN <<>>
    ELSE list([i \in 1..Len(Head(table)[2]) |-> <<Head(table)[2][i], Head(table)[1]>>])
         \o category_items(Tail(table))

categorize(table) == dict_from_items(category_items(table))

\* _load_recommendations: the specific entries, then a default entry for every
\* canonical skill that has none
load_recommendations(skills) ==
    LET specific == SelectSeq(SpecificRecommendations, LAMBDA item : item[1] \in ToSet(skills))
        others == SelectSeq(skills, LAMBDA skill : ~dict_has(specific, skill))
    IN  specific
        \o dict_from_items(list([i \in 1..Len(others) |-> <<others[i], DefaultRecommendation>>]))

\* for canonical, variants: for variant in variants:
\*     variant_to_canonical[variant.lower()] = canonical
RECURSIVE synonym_items(_)
synonym_items(synonyms) ==
    IF synonyms = <<>> THEN <<>>
    ELSE list([i \in 1..Len(Head(synonyms)[2]) |-> <<lower(Head(synonyms)[2][i]), Head(synonyms)[1]>>])
         \o synonym_items(Tail(synonyms))

\* _build_variant_mappings, the mapping: every canonical skill to itself, then
\* the synonyms
build_variant_to_canonical(skills, synonyms) ==
    dict_from_items(list([i \in 1..Len(skills) |-> <<skills[i], skills[i]>>])
                    \o synonym_items(synonyms))

\* sorted(variant_to_canonical.keys(), key=lambda x: -len(x))
sort_longest_first(keys) ==
    LET items == list([i \in 1..Len(keys) |-> <<(<<-Len(keys[i]), 1>>), keys[i]>>])
        sorted_items == sort_by_key(items)
    IN  list([i \in 1..Len(keys) |-> sorted_items[i][2]])

\* get_skill_category
get_skill_category(skill) == dict_get(skill_categories, lower(skill), "uncategorized")

\* the loop of get_related_skills from canonical_skills[k] on: a skill of the
\* category is appended, and the loop breaks when len(related) >= limit
RECURSIVE related_from(_, _, _, _, _)
related_from(k, related, skill, category, limit) ==
    IF k > Len(canonical_skills) THEN related
    ELSE IF canonical_skills[k] # lower(skill)
            /\ get_skill_category(canonical_skills[k]) = category
         THEN IF Len(related) + 1 >= limit
              THEN Append(related, canonical_skills[k])
              ELSE related_from(k + 1, Append(related, canonical_skills[k]), skill, category, limit)
         ELSE related_from(k + 1, related, skill, category, limit)

\* get_related_skills
get_related_skills(skill, limit) ==
    IF get_skill_category(skill) = "uncategorized" THEN <<>>
    ELSE related_from(1, <<>>, skill, get_skill_category(skill), limit)

(***************************************************************************)
(* SkillMatcher.exact_match                                                *)
(***************************************************************************)

\* SkillMatcher.config as __init__ sets it
DefaultConfig ==
    [exact_match_boost |-> Rat(1, 1),
     semantic_threshold |-> Rat(55, 100),
     fuzzy_threshold |-> Rat(85, 100),
     context_window |-> 50,
     min_confidence |-> Rat(3, 10)]

SkillMatch(skill, confidence, method, context, category) ==
    [skill |-> skill, confidence |-> confidence, method |-> method,
     context |-> context, category |-> category]

is_word_char(text, i) == i >= 1 /\ i <= Len(text) /\ text[i] \in WordChars

\* \b at the position before character i (i = Len(text) + 1: at the end)
word_boundary(text, i) == is_word_char(text, i - 1) # is_word_char(text, i)

\* The literal found at i with no \b on either side: a plain substring test.
pattern_matches_at_substring(text, variant, i) ==
    SubSeq(text, i, i + Len(variant) - 1) = variant

\* r"\b" + re.escape(variant) + r"\b" matches at character i
pattern_matches_at(text, variant, i) ==
    /\ SubSeq(text, i, i + Len(variant) - 1) = variant
    /\ word_boundary(text, i)
    /\ word_boundary(text, i + Len(variant))

\* re.search(pattern, normalized): the start of the leftmost match, 0 for no match
re_search(text, variant) ==
    LET found == {i \in 1..(Len(text) - Len(variant) + 1) : pattern_matches_at(text, variant, i)}
    IN  IF found = {} THEN 0 ELSE CHOOSE i \in found : \A j \in found : i <= j

max(a, b) == IF a > b THEN a ELSE b
min(a, b) == IF a < b THEN a ELSE b

\* normalized[start:end] around the match that starts at character i
match_context(normalized, variant, i) ==
    LET start == max(0, (i - 1) - config.context_window)
        end == min(Len(normalized), (i - 1) + Len(variant) + config.context_window)
    IN  SubSeq(normalized, start + 1, end)

\* The variant itself, not resolved to its canonical skill.
canonical_of_unresolved(variant) == variant

\* canonical = self.processor.variant_to_canonical[variant]
canonical_of(variant) == dict_get(variant_to_canonical, variant, None)

\* exact_match: a variant found in the text adds a match unless an earlier
\* variant of sorted_variants already added its canonical skill
exact_match(text) ==
    LET normalized == normalize_text(text)
        canonical(k) == canonical_of(sorted_variants[k])
        found == {k \in 1..Len(sorted_variants) : re_search(normalized, sorted_variants[k]) # 0}
        added == SelectSeq(list([k \in 1..Len(sorted_variants) |-> k]),
                     LAMBDA k : k \in found
                                /\ \A j \in found : j < k => canonical(j) # canonical(k))
    IN  list([n \in 1..Len(added) |->
            SkillMatch(canonical(added[n]),
                       rat_mul(<<1, 1>>, config.exact_match_boost),
                       "exact",
                       match_context(normalized, sorted_variants[added[n]],
                                     re_search(normalized, sorted_variants[added[n]])),
                       get_skill_category(canonical(added[n])))])

skills_of(matches) == {matches[i].skill : i \in 1..Len(matches)}

(***************************************************************************)
(* The trained models                                                      *)
(*                                                                         *)
(* The TF-IDF vector space, the sentence-embedding model and the spaCy     *)
(* pipeline are fitted or loaded once in SkillMatcher.__init__ and are     *)
(* functions of their input from then on.  Which functions they are is not *)
(* in the source: `trained` picks one of a family, the same for every call *)
(* of a behaviour.                                                         *)
(***************************************************************************)

\* a number that depends on the characters of the text
text_hash(text) ==
    IF Len(text) = 0 THEN 0
    ELSE Len(text) + ord(text[1]) + 3 * ord(text[Len(text)])
         + 5 * ord(text[(Len(text) + 1) \div 2])

\* the corpus _initialize_tfidf fits: every canonical skill, each followed by
\* its synonyms when it has some
RECURSIVE tfidf_corpus(_)
tfidf_corpus(skills) ==
    IF skills = <<>> THEN <<>>
    ELSE <<Head(skills)>>
         \o dict_get(skill_synonyms, Head(skills), <<>>)
         \o tfidf_corpus(Tail(skills))

\* the maximal runs of characters of the set chars, as <<first, last>>
\* positions in the order of the text
runs(text, chars) ==
    LET inside(i) == i >= 1 /\ i <= Len(text) /\ text[i] \in chars
        starts == SelectSeq(list([i \in 1..Len(text) |-> i]),
                      LAMBDA i : inside(i) /\ ~inside(i - 1))
        end(i) == CHOOSE j \in i..Len(text) :
                      (\A k \in i..j : inside(k)) /\ ~inside(j + 1)
    IN  list([n \in 1..Len(starts) |-> <<starts[n], end(starts[n])>>])

\* the tokens of TfidfVectorizer's default token pattern: the maximal runs of
\* two or more word characters
tokens(text) ==
    LET word_runs == runs(text, WordChars)
    IN  {SubSeq(text, word_runs[n][1], word_runs[n][2]) :
            n \in {m \in 1..Len(word_runs) : word_runs[m][2] > word_runs[m][1]}}

FuzzyLevels == <<(<<1, 2>>), (<<17, 20>>), (<<9, 10>>), (<<1, 1>>)>>

\* cosine_similarity(text_vector, tfidf_matrix).flatten(): one similarity in
\* [0, 1] for every document of the corpus, 0 for a document that shares no
\* token with the text
tfidf_similarities(normalized) ==
    LET corpus == tfidf_corpus(canonical_skills)
        text_tokens == tokens(normalized)
    IN  list([d \in 1..Len(corpus) |->
            IF tokens(corpus[d]) \cap text_tokens = {} THEN <<0, 1>>
            ELSE FuzzyLevels[((text_hash(normalized) + 7 * trained + 3 * d) % Len(FuzzyLevels)) + 1]])

SemanticLevels == <<(<<-1, 10>>), (<<3, 10>>), (<<11, 20>>), (<<7, 10>>), (<<19, 20>>)>>

\* util.cos_sim(text_embedding, skill_embeddings)[0]: one similarity in [-1, 1]
\* for every entry of canonical_skills.  An entry's embedding is that of
\* f"{skill} {category} technology programming development", so two entries
\* with the same skill have the same similarity.
cos_scores(normalized) ==
    list([k \in 1..Len(canonical_skills) |->
        SemanticLevels[((text_hash(normalized) + 5 * trained
                         + text_hash(canonical_skills[k])
                         + Len(canonical_skills[k])) % Len(SemanticLevels)) + 1]])

\* the words of a text: the maximal runs of characters that are neither
\* whitespace nor a comma, without a full stop at their end
words(text) ==
    LET word_runs == runs(text, ToSet(CodePoints) \ (Whitespace \cup {","}))
        word(r) == IF text[r[2]] = "." /\ r[2] > r[1]
                   THEN SubSeq(text, r[1], r[2] - 1)
                   ELSE SubSeq(text, r[1], r[2])
    IN  list([n \in 1..Len(word_runs) |-> word(word_runs[n])])

\* [chunk.text for chunk in self.nlp(lowered).noun_chunks]: some of the words of
\* the text, in their order
noun_chunks(lowered) ==
    LET all == words(lowered)
        chosen == SelectSeq(list([n \in 1..Len(all) |-> n]),
                      LAMBDA n : (text_hash(lowered) + n) % (trained + 1) = 0)
    IN  list([n \in 1..Len(chosen) |-> all[chosen[n]]])

(***************************************************************************)
(* SkillMatcher.fuzzy_match, semantic_match, contextual_match              *)
(***************************************************************************)

\* idx % len(canonical_skills), as a 1-based position
fuzzy_skill_position(idx) == ((idx - 1) % Len(canonical_skills)) + 1

\* the loop of fuzzy_match over the similarities of the text to the documents
\* of the corpus
matches_above_threshold(similarities) ==
    LET threshold_indices ==
            SelectSeq(list([d \in 1..Len(similarities) |-> d]),
                LAMBDA d : rat_le(config.fuzzy_threshold, similarities[d]))
        skill(d) == canonical_skills[fuzzy_skill_position(d)]
        kept == SelectSeq(threshold_indices,
                    LAMBDA d : \A e \in 1..(d - 1) :
                        rat_le(config.fuzzy_threshold, similarities[e]) => skill(e) # skill(d))
    IN  list([n \in 1..Len(kept) |->
            SkillMatch(skill(kept[n]), similarities[kept[n]], "fuzzy", None,
                       get_skill_category(skill(kept[n])))])

fuzzy_match(text) ==
    IF canonical_skills = <<>> THEN <<>>  \* self.tfidf_vectorizer is None
    ELSE matches_above_threshold(tfidf_similarities(normalize_text(text)))

DefaultTopK == 10

\* torch.topk(cos_scores, k): the positions of the k highest scores, highest
\* first; equal scores are taken in the order of their positions
topk(scores, k) ==
    LET sorted_items == sort_by_key(list([i \in 1..Len(scores) |->
                            <<(<<-scores[i][1], scores[i][2]>>), i>>]))
    IN  list([n \in 1..k |-> sorted_items[n][2]])

\* the loop of semantic_match over the top_k highest of the scores
top_matches(scores, top_k) ==
    LET kept == SelectSeq(topk(scores, min(top_k, Len(scores))),
                    LAMBDA idx : rat_le(config.semantic_threshold, scores[idx]))
    IN  list([n \in 1..Len(kept) |->
            SkillMatch(canonical_skills[kept[n]], scores[kept[n]], "semantic", None,
                       get_skill_category(canonical_skills[kept[n]]))])

\* semantic_match from the normalized text on
semantic_match_normalized(normalized, top_k) ==
    IF normalized = <<>> THEN <<>> ELSE top_matches(cos_scores(normalized), top_k)

semantic_match(text, top_k) ==
    IF canonical_skills = <<>> THEN <<>>  \* self.skill_embeddings is None
    ELSE semantic_match_normalized(normalize_text(text), top_k)

\* The patterns of contextual_match, in their order.  A "cue" pattern is
\* r"<literal>(.+?)(?:,|\.|and|$)", a "role" pattern is r"(\w+)<literal>".
patterns ==
    << [kind |-> "cue", literal |-> <<"e", "x", "p", "e", "r", "i", "e", "n", "c", "e", " ", "w", "i", "t", "h", " ">>],
       [kind |-> "cue", literal |-> <<"p", "r", "o", "f", "i", "c", "i", "e", "n", "t", " ", "i", "n", " ">>],
       [kind |-> "cue", literal |-> <<"k", "n", "o", "w", "l", "e", "d", "g", "e", " ", "o", "f", " ">>],
       [kind |-> "cue", literal |-> <<"s", "k", "i", "l", "l", "e", "d", " ", "i", "n", " ">>],
       [kind |-> "cue", literal |-> <<"e", "x", "p", "e", "r", "t", "i", "s", "e", " ", "i", "n", " ">>],
       [kind |-> "cue", literal |-> <<"w", "o", "r", "k", "i", "n", "g", " ", "w", "i", "t", "h", " ">>],
       [kind |-> "cue", literal |-> <<"f", "a", "m", "i", "l", "i", "a", "r", " ", "w", "i", "t", "h", " ">>],
       [kind |-> "role", literal |-> <<" ", "d", "e", "v", "e", "l", "o", "p", "e", "r">>],
       [kind |-> "role", literal |-> <<" ", "e", "n", "g", "i", "n", "e", "e", "r">>],
       [kind |-> "role", literal |-> <<" ", "p", "r", "o", "g", "r", "a", "m", "m", "e", "r">>] >>

literal_at(text, literal, i) ==
    /\ i >= 1
    /\ i + Len(literal) - 1 <= Len(text)
    /\ SubSeq(text, i, i + Len(literal) - 1) = literal

\* the length of what (?:,|\.|and|$) matches at character i, -1 for no match:
\* the alternatives are tried in order, $ matches at the end of the text and
\* before a newline that ends it
terminator_at(text, i) ==
    IF i <= Len(text) /\ text[i] \in {",", "."} THEN 1
    ELSE IF literal_at(text, <<"a", "n", "d">>, i) THEN 3
    ELSE IF i = Len(text) + 1 \/ (i = Len(text) /\ text[i] = "\n") THEN 0
    ELSE -1

NoMatch == [stop |-> 0, group |-> <<>>]

\* The match of a pattern that starts at character i, as
\* [stop |-> the position after it, group |-> match.group(1)]; stop is 0 for
\* no match.
\* (.+?) takes the fewest characters, at least one and none of them a newline,
\* that a terminator follows; (\w+) takes the whole run of word characters
\* from i, which is the only part of it that a space can follow.
pattern_match_at(text, pattern, i) ==
    IF pattern.kind = "cue" THEN
        LET first == i + Len(pattern.literal)
            stops == {e \in (first + 1)..(Len(text) + 1) :
                         /\ \A k \in first..(e - 1) : text[k] # "\n"
                         /\ terminator_at(text, e) >= 0}
            e == CHOOSE x \in stops : \A y \in stops : x <= y
        IN  IF ~literal_at(text, pattern.literal, i) \/ stops = {} THEN NoMatch
            ELSE [stop |-> e + terminator_at(text, e), group |-> SubSeq(text, first, e - 1)]
    ELSE
        LET ends == {j \in i..Len(text) :
                        (\A k \in i..j : is_word_char(text, k)) /\ ~is_word_char(text, j + 1)}
            last == CHOOSE j \in ends : TRUE
        IN  IF ends = {} \/ ~literal_at(text, pattern.literal, last + 1) THEN NoMatch
            ELSE [stop |-> last + 1 + Len(pattern.literal), group |-> SubSeq(text, i, last)]

\* [m.group(1) for m in re.finditer(pattern, text)] from character pos on: the
\* leftmost match, then the matches after its end
RECURSIVE finditer(_, _, _)
finditer(text, pattern, pos) ==
    LET found == {i \in pos..Len(text) : pattern_match_at(text, pattern, i).stop # 0}
        i == CHOOSE x \in found : \A y \in found : x <= y
        m == pattern_match_at(text, pattern, i)
    IN  IF found = {} THEN <<>>
        ELSE <<m.group>> \o finditer(text, pattern, m.stop)

RECURSIVE pattern_phrases(_, _)
pattern_phrases(lowered, k) ==
    IF k > Len(patterns) THEN <<>>
    ELSE finditer(lowered, patterns[k], 1) \o pattern_phrases(lowered, k + 1)

ContextualConfidence == <<7, 10>>

\* skill in normalized_phrase or normalized_phrase in skill
phrase_hits_skill(skill, normalized_phrase) ==
    str_contains(normalized_phrase, skill) \/ str_contains(skill, normalized_phrase)

\* technical_phrases: the noun chunks, then what the patterns find
technical_phrases(lowered) == noun_chunks(lowered) \o pattern_phrases(lowered, 1)

\* The (phrase, skill) pairs that match, as positions, in the order of the two
\* nested loops.
phrase_hits(phrases) ==
    SelectSeq(list([n \in 1..(Len(phrases) * Len(canonical_skills)) |->
                  <<((n - 1) \div Len(canonical_skills)) + 1,
                    ((n - 1) % Len(canonical_skills)) + 1>>]),
              LAMBDA pr : phrase_hits_skill(canonical_skills[pr[2]],
                                            normalize_text(phrases[pr[1]])))

\* The matches of contextual_match as the loops append them, not deduplicated.
unique_matches_every_hit(phrases, hits) ==
    list([n \in 1..Len(hits) |->
        SkillMatch(canonical_skills[hits[n][2]], ContextualConfidence,
                   "contextual", phrases[hits[n][1]],
                   get_skill_category(canonical_skills[hits[n][2]]))])

\* Deduplicate: every match has the same confidence, so the first match of a
\* skill is the one that stays.
unique_matches(phrases, hits) ==
    LET firsts == SelectSeq(list([n \in 1..Len(hits) |-> n]),
                      LAMBDA n : \A m \in 1..(n - 1) :
                          canonical_skills[hits[m][2]] # canonical_skills[hits[n][2]])
    IN  list([n \in 1..Len(firsts) |->
            SkillMatch(canonical_skills[hits[firsts[n]][2]], ContextualConfidence,
                       "contextual", phrases[hits[firsts[n]][1]],
                       get_skill_category(canonical_skills[hits[firsts[n]][2]]))])

\* contextual_match from the technical phrases on
phrase_matches(phrases) == unique_matches(phrases, phrase_hits(phrases))

contextual_match(text) == phrase_matches(technical_phrases(lower(text)))

(***************************************************************************)
(* SkillMatcher.hybrid_match, match_skills, match_skills_detailed          *)
(***************************************************************************)

\* What a call gives back: the value it returns, or the exception it raises.
Returned(value) == [raised |-> "none", value |-> value]
Raised(exception) == [raised |-> exception, value |-> None]

\* The strategy_weights argument: None, or a dict of weights.
NoWeights == [is_none |-> TRUE, items |-> <<>>]
Weights(items) == [is_none |-> FALSE, items |-> items]

\* Default weights with the weight of the exact strategy at 0.5.
DefaultStrategyWeightsExactHalved ==
    << <<"exact", Rat(1, 2)>>, <<"fuzzy", Rat(7, 10)>>,
       <<"semantic", Rat(8, 10)>>, <<"contextual", Rat(6, 10)>> >>

\* the weights hybrid_match uses when it is given none
DefaultStrategyWeights ==
    << <<"exact", Rat(1, 1)>>, <<"fuzzy", Rat(7, 10)>>,
       <<"semantic", Rat(8, 10)>>, <<"contextual", Rat(6, 10)>> >>

RECURSIVE rat_sum(_)
rat_sum(seq) == IF seq = <<>> THEN <<0, 1>> ELSE rat_add(Head(seq), rat_sum(Tail(seq)))

\* a str or None value that an `if` takes as true
truthy(value) == value # None /\ value # <<>>

\* '; '.join(strs)
RECURSIVE join(_)
join(strs) ==
    IF Len(strs) = 0 THEN <<>>
    ELSE IF Len(strs) = 1 THEN strs[1]
    ELSE strs[1] \o <<";", " ">> \o join(Tail(strs))

\* The score with no upper limit put on it.
normalized_confidence_unclamped(confidence, max_possible_score) ==
    rat_div(confidence, max_possible_score)

\* min(1.0, skill_data['confidence'] / max_possible_score)
normalized_confidence(confidence, max_possible_score) ==
    rat_min(<<1, 1>>, rat_div(confidence, max_possible_score))

\* what the four strategies find in the text, in the order hybrid_match runs them
strategy_matches(text) ==
    <<exact_match(text), fuzzy_match(text),
      semantic_match(text, DefaultTopK), contextual_match(text)>>

\* the matches of the k-th strategy, each with strategy_weights.get(name, 1.0)
weighted(matches, name, weights) ==
    list([n \in 1..Len(matches) |->
        [match |-> matches[n], weight |-> dict_get(weights, name, <<1, 1>>)]])

\* every match of every strategy with its weight, in the order of the loops
weighted_matches(by_strategy, weights) ==
    weighted(by_strategy[1], "exact", weights)
    \o weighted(by_strategy[2], "fuzzy", weights)
    \o weighted(by_strategy[3], "semantic", weights)
    \o weighted(by_strategy[4], "contextual", weights)

\* all_matches[skill] after the loops, for the skill of found[n]
skill_data(found, n) ==
    LET all == SelectSeq(found, LAMBDA f : f.match.skill = found[n].match.skill)
    IN  [skill |-> found[n].match.skill,
         confidence |-> rat_sum(list([m \in 1..Len(all) |->
                            rat_mul(all[m].match.confidence, all[m].weight)])),
         methods |-> {all[m].match.method : m \in 1..Len(all)},
         category |-> found[n].match.category,
         contexts |-> SelectSeq(list([m \in 1..Len(all) |-> all[m].match.context]), truthy)]

\* the SkillMatch that hybrid_match makes of an entry of all_matches.  Its
\* method is '+'.join(set(methods)), whose order is the set's: it is kept as
\* the set of the method names.
final_match(data, max_possible_score) ==
    SkillMatch(data.skill,
               normalized_confidence(data.confidence, max_possible_score),
               data.methods,
               IF data.contexts # <<>>
               THEN join(SubSeq(data.contexts, 1, min(2, Len(data.contexts))))
               ELSE None,
               data.category)

\* final_matches before the sort: the entries of all_matches in their order,
\* those dropped whose confidence is under the floor
kept_matches(finals) ==
    SelectSeq(finals, LAMBDA match : rat_le(config.min_confidence, match.confidence))

\* final_matches left in the order of all_matches, not sorted.
sorted_by_confidence_left_unsorted(matches) == matches

\* final_matches.sort(key=lambda x: x.confidence, reverse=True)
sorted_by_confidence(matches) ==
    dict_values(sort_by_key(list([n \in 1..Len(matches) |->
        <<(<<-matches[n].confidence[1], matches[n].confidence[2]>>), matches[n]>>])))

\* The second half of hybrid_match with the division by max_possible_score
\* made before the loop, whether or not a skill was found.
final_matches_dividing_first(found, max_possible_score) ==
    LET firsts == SelectSeq(list([n \in 1..Len(found) |-> n]),
                      LAMBDA n : \A m \in 1..(n - 1) : found[m].match.skill # found[n].match.skill)
    IN  IF max_possible_score[1] = 0 THEN Raised("ZeroDivisionError")
        ELSE Returned(sorted_by_confidence(kept_matches(
                 list([k \in 1..Len(firsts) |->
                     final_match(skill_data(found, firsts[k]), max_possible_score)]))))

\* the second half of hybrid_match, over the weighted matches found
final_matches(found, max_possible_score) ==
    LET firsts == SelectSeq(list([n \in 1..Len(found) |-> n]),
                      LAMBDA n : \A m \in 1..(n - 1) : found[m].match.skill # found[n].match.skill)
    IN  IF firsts # <<>> /\ max_possible_score[1] = 0 THEN Raised("ZeroDivisionError")
        ELSE Returned(sorted_by_confidence(kept_matches(
                 list([k \in 1..Len(firsts) |->
                     final_match(skill_data(found, firsts[k]), max_possible_score)]))))

\* hybrid_match with the weights it is given or has taken
hybrid_match_weighted(text, weights) ==
    final_matches(weighted_matches(strategy_matches(text), weights),
                  rat_sum(dict_values(weights)))

hybrid_match(text, strategy_weights) ==
    hybrid_match_weighted(text, IF strategy_weights.is_none THEN DefaultStrategyWeights
                                ELSE strategy_weights.items)

MatchingStrategy == {"exact", "fuzzy", "semantic", "contextual", "hybrid"}

\* the if/elif chain of match_skills and match_skills_detailed
match_skills_detailed(text, strategy) ==
    IF strategy = "exact" THEN Returned(exact_match(text))
    ELSE IF strategy = "fuzzy" THEN Returned(fuzzy_match(text))
    ELSE IF strategy = "semantic" THEN Returned(semantic_match(text, DefaultTopK))
    ELSE IF strategy = "contextual" THEN Returned(contextual_match(text))
    ELSE hybrid_match(text, NoWeights)

\* sorted(list(set(match.skill for match in matches)))
sorted_skills(matches) ==
    IF matches.raised # "none" THEN matches
    ELSE Returned(sorted_strs(skills_of(matches.value)))

match_skills(text, strategy) == sorted_skills(match_skills_detailed(text, strategy))

(***************************************************************************)
(* SkillMatcher.analyze_skill_gap                                          *)
(***************************************************************************)

\* round(x, 2) of the float x = n / d * 100, as hundredths: the nearest one,
\* the even one of two that are equally near
round_percent(n, d) ==
    LET scaled == n * 10000
        q == scaled \div d
        r == scaled % d
    IN  IF 2 * r > d \/ (2 * r = d /\ q % 2 = 1) THEN Rat(q + 1, 100) ELSE Rat(q, 100)

\* The share of the matched skills among the resume's skills.
match_percent_of_resume(n_matched, n_job_skills, n_resume_skills) ==
    IF n_resume_skills # 0 THEN round_percent(n_matched, n_resume_skills) ELSE <<0, 1>>

\* round(len(matched) / len(job_skills) * 100, 2) if job_skills else 0
match_percent(n_matched, n_job_skills, n_resume_skills) ==
    IF n_job_skills # 0 THEN round_percent(n_matched, n_job_skills) ELSE <<0, 1>>

\* Every skill of the job text, matched in the resume or not.
simple_missing_all(resume_skills, job_skills) == job_skills

\* missing = job_skills - resume_skills
simple_missing(resume_skills, job_skills) == job_skills \ resume_skills

\* Every skill of the resume, matched in the job text or not.
simple_additional_all(resume_skills, job_skills) == resume_skills

\* additional = resume_skills - job_skills
simple_additional(resume_skills, job_skills) == resume_skills \ job_skills

\* the else branch of analyze_skill_gap over the two skill sets
simple_analysis(resume_skills, job_skills) ==
    LET matched == resume_skills \cap job_skills
    IN  [matched_skills |-> sorted_strs(matched),
         missing_skills |-> sorted_strs(simple_missing(resume_skills, job_skills)),
         additional_skills |-> sorted_strs(simple_additional(resume_skills, job_skills)),
         match_percentage |-> match_percent(Cardinality(matched), Cardinality(job_skills),
                                            Cardinality(resume_skills)),
         total_job_skills |-> Cardinality(job_skills),
         total_resume_skills |-> Cardinality(resume_skills)]

\* The entry of an additional skill with the job text's confidence, which is
\* the default of a skill the job text does not have.
additional_entry_of_job(skill, resume_skills, job_skills) ==
    [confidence |-> dict_get(job_skills, skill, [confidence |-> <<0, 1>>]).confidence,
     category |-> dict_get(resume_skills, skill, None).category]

\* additional[skill] = {'confidence': ..., 'category': ...}
additional_entry(skill, resume_skills, job_skills) ==
    [confidence |-> dict_get(resume_skills, skill, None).confidence,
     category |-> dict_get(resume_skills, skill, None).category]

\* the detailed branch of analyze_skill_gap over the two {skill: match} dicts
detailed_analysis(resume_skills, job_skills) ==
    LET in_both == SelectSeq(dict_keys(job_skills), LAMBDA skill : dict_has(resume_skills, skill))
        job_only == SelectSeq(dict_keys(job_skills), LAMBDA skill : ~dict_has(resume_skills, skill))
        resume_only == SelectSeq(dict_keys(resume_skills), LAMBDA skill : ~dict_has(job_skills, skill))
        matched == list([n \in 1..Len(in_both) |->
                       <<in_both[n],
                         [resume_confidence |-> dict_get(resume_skills, in_both[n], None).confidence,
                          job_confidence |-> dict_get(job_skills, in_both[n], None).confidence,
                          category |-> dict_get(job_skills, in_both[n], None).category]>>])
        missing == list([n \in 1..Len(job_only) |->
                       <<job_only[n],
                         [confidence |-> dict_get(job_skills, job_only[n], None).confidence,
                          category |-> dict_get(job_skills, job_only[n], None).category,
                          recommendations |-> dict_get(recommendations, job_only[n], EmptyDict)]>>])
        additional == list([n \in 1..Len(resume_only) |->
                          <<resume_only[n], additional_entry(resume_only[n], resume_skills, job_skills)>>])
    IN  [matched_skills |-> matched,
         missing_skills |-> missing,
         additional_skills |-> additional,
         match_percentage |-> match_percent(Len(matched), Len(job_skills), Len(resume_skills)),
         total_job_skills |-> Len(job_skills),
         total_resume_skills |-> Len(resume_skills)]

\* {m.skill: m for m in matches}
by_skill(matches) == dict_from_items(list([n \in 1..Len(matches) |-> <<matches[n].skill, matches[n]>>]))

\* the detailed analysis of the matches of the two texts
detailed_gap(resume_matches, job_matches) ==
    IF resume_matches.raised # "none" THEN resume_matches
    ELSE IF job_matches.raised # "none" THEN job_matches
    ELSE Returned(detailed_analysis(by_skill(resume_matches.value),
                                    by_skill(job_matches.value)))

\* the simple analysis of the skills of the two texts
simple_gap(resume_skills, job_skills) ==
    IF resume_skills.raised # "none" THEN resume_skills
    ELSE IF job_skills.raised # "none" THEN job_skills
    ELSE Returned(simple_analysis(ToSet(resume_skills.value), ToSet(job_skills.value)))

analyze_skill_gap(resume_text, job_text, detailed) ==
    IF detailed
    THEN detailed_gap(match_skills_detailed(resume_text, "hybrid"),
                      match_skills_detailed(job_text, "hybrid"))
    ELSE simple_gap(match_skills(resume_text, "hybrid"),
                    match_skills(job_text, "hybrid"))

(***************************************************************************)
(* SkillMatcher.update_config                                              *)
(***************************************************************************)

\* self.config.update(kwargs), for one keyword argument
update_config(key, value) ==
    [exact_match_boost |-> IF key = "exact_match_boost" THEN value ELSE config.exact_match_boost,
     semantic_threshold |-> IF key = "semantic_threshold" THEN value ELSE config.semantic_threshold,
     fuzzy_threshold |-> IF key = "fuzzy_threshold" THEN value ELSE config.fuzzy_threshold,
     context_window |-> IF key = "context_window" THEN value ELSE config.context_window,
     min_confidence |-> IF key = "min_confidence" THEN value ELSE config.min_confidence]

(***************************************************************************)
(* SkillMatcher.get_skill_recommendations                                  *)
(***************************************************************************)

\* the generic recommendation for a skill the store has no entry for
GenericRecommendation ==
    [courses |-> "tutorials", difficulty |-> "varies", time_estimate |-> "1-3 months"]

\* entry['related_skills'] = related
with_related_skills(entry, related) ==
    [courses |-> entry.courses, difficulty |-> entry.difficulty,
     time_estimate |-> entry.time_estimate, related_skills |-> related]

\* the entry of the result for a skill: the entry of the store (the same dict
\* object, not a copy) or a new generic one, with 'related_skills' set when
\* get_related_skills finds any
recommendation_entry(entry, related) ==
    IF related # <<>> THEN with_related_skills(entry, related) ELSE entry

\* the dict that get_skill_recommendations returns
recommended(missing_skills) ==
    dict_from_items(list([n \in 1..Len(missing_skills) |->
        <<missing_skills[n],
          recommendation_entry(dict_get(recommendations, missing_skills[n], GenericRecommendation),
                               get_related_skills(missing_skills[n], 3))>>]))

\* self.processor.recommendations after get_skill_recommendations: the entries
\* of the store that the result holds are the store's own dicts, so setting
\* 'related_skills' on them sets it in the store
recommendations_after(missing_skills) ==
    list([i \in 1..Len(recommendations) |->
        IF recommendations[i][1] \in ToSet(missing_skills)
        THEN <<recommendations[i][1],
               recommendation_entry(recommendations[i][2],
                                    get_related_skills(recommendations[i][1], 3))>>
        ELSE recommendations[i]])

(***************************************************************************)
(* api_server: the endpoints that take a strategy                          *)
(***************************************************************************)

v_exact == <<"e", "x", "a", "c", "t">>
v_fuzzy == <<"f", "u", "z", "z", "y">>
v_semantic == <<"s", "e", "m", "a", "n", "t", "i", "c">>
v_hybrid == <<"h", "y", "b", "r", "i", "d">>
v_contextual == <<"c", "o", "n", "t", "e", "x", "t", "u", "a", "l">>

\* the members of MatchingStrategy by their values
StrategyValues ==
    << <<v_exact, "exact">>, <<v_fuzzy, "fuzzy">>, <<v_semantic, "semantic">>,
       <<v_hybrid, "hybrid">>, <<v_contextual, "contextual">> >>

\* MatchingStrategy(value): the member with the value, ValueError if none has it
strategy_of_value(value) ==
    IF dict_has(StrategyValues, value)
    THEN Returned(dict_get(StrategyValues, value, None))
    ELSE Raised("ValueError")

\* try: MatchingStrategy(strategy.lower()) except ValueError: HTTPException(400)
validated_strategy(strategy) ==
    IF strategy_of_value(lower(strategy)).raised = "ValueError"
    THEN Raised("HTTPException")
    ELSE strategy_of_value(lower(strategy))

\* round(match.confidence, 3), as thousandths: the nearest one, the even one of
\* two that are equally near
round_confidence(confidence) ==
    LET scaled == confidence[1] * 1000
        q == scaled \div confidence[2]
        r == scaled % confidence[2]
    IN  IF 2 * r > confidence[2] \/ (2 * r = confidence[2] /\ q % 2 = 1)
        THEN Rat(q + 1, 1000) ELSE Rat(q, 1000)

confidence_level(confidence) ==
    IF rat_lt(<<4, 5>>, confidence) THEN "high"
    ELSE IF rat_lt(<<1, 2>>, confidence) THEN "medium"
    ELSE "low"

\* skills_by_confidence of extract_skills: level -> the matches of the level
skills_by_confidence(matches) ==
    LET levels == dict_keys(dict_from_items(list([n \in 1..Len(matches) |->
                      <<confidence_level(matches[n].confidence), TRUE>>])))
        of_level(level) == SelectSeq(matches,
                               LAMBDA match : confidence_level(match.confidence) = level)
    IN  list([k \in 1..Len(levels) |->
            <<levels[k],
              list([n \in 1..Len(of_level(levels[k])) |->
                  [skill |-> of_level(levels[k])[n].skill,
                   confidence |-> round_confidence(of_level(levels[k])[n].confidence),
                   category |-> of_level(levels[k])[n].category,
                   method |-> of_level(levels[k])[n].method]])>>])

\* the response of extract_skills for the matches of the text
extract_response(matches) ==
    IF matches.raised # "none" THEN matches
    ELSE Returned([total_skills |-> Len(matches.value),
                   skills |-> list([n \in 1..Len(matches.value) |-> matches.value[n].skill]),
                   detailed |-> skills_by_confidence(matches.value)])

\* extract_skills from the validated strategy on
extract_skills_with(text, strategy_enum) ==
    IF strategy_enum.raised # "none" THEN strategy_enum
    ELSE extract_response(match_skills_detailed(text, strategy_enum.value))

\* POST /api/skills/extract
extract_skills(text, strategy) == extract_skills_with(text, validated_strategy(strategy))

\* result['missing_skills'][:5]
top_missing(missing_skills) == SubSeq(missing_skills, 1, min(5, Len(missing_skills)))

\* the analysis with result['recommendations'] set
with_recommendations(analysis, recs) ==
    [matched_skills |-> analysis.matched_skills,
     missing_skills |-> analysis.missing_skills,
     additional_skills |-> analysis.additional_skills,
     match_percentage |-> analysis.match_percentage,
     total_job_skills |-> analysis.total_job_skills,
     total_resume_skills |-> analysis.total_resume_skills,
     recommendations |-> recs]

\* whether analyze_skill_gap_json asks for recommendations
wants_recommendations(analysis, detailed) ==
    analysis.raised = "none" /\ ~detailed /\ analysis.value.missing_skills # <<>>

\* the response of analyze_skill_gap_json for the analysis of the engine
json_response(analysis, detailed) ==
    IF wants_recommendations(analysis, detailed)
    THEN Returned(with_recommendations(analysis.value,
                      recommended(top_missing(analysis.value.missing_skills))))
    ELSE analysis

\* self.processor.recommendations after analyze_skill_gap_json
json_recommendations_after(analysis, detailed) ==
    IF wants_recommendations(analysis, detailed)
    THEN recommendations_after(top_missing(analysis.value.missing_skills))
    ELSE recommendations

\* the analysis analyze_skill_gap_json runs once the strategy is validated: the
\* call of the engine is given the texts and detailed, and no strategy
json_analysis(request, strategy_enum) ==
    IF strategy_enum.raised # "none" THEN strategy_enum
    ELSE analyze_skill_gap(request.resume_text, request.job_text, request.detailed)

(***************************************************************************)
(* api_server: the cache of /api/skill-gap/analyze                         *)
(***************************************************************************)

\* redis_client when Redis could not be reached at startup: None
NoRedis == [connected |-> FALSE, entries |-> <<>>]

\* the client of a Redis server that holds the entries, key -> JSON text, in
\* the order of their keys' first setting
Redis(entries) == [connected |-> TRUE, entries |-> entries]

\* get_cache_key: the MD5 digest of f"{resume_text}:{job_text}:{strategy}".
\* The digest is taken as one-to-one: the key is the string it digests.
get_cache_key(resume_text, job_text, strategy) ==
    resume_text \o <<":">> \o job_text \o <<":">> \o strategy

\* json.dumps(result): the JSON text of a result, which is made of dicts with
\* str keys, lists, strs, ints and floats
json_dumps(value) == [json_text_of |-> value]

\* json.loads(text): for such a value, one equal to the value dumped
json_loads(text) == text.json_text_of

\* whether get_cached_result(key) returns a result: there is a client and the
\* server holds the key
has_cached_result(key) ==
    redis_client.connected /\ dict_has(redis_client.entries, key)

\* get_cached_result(key), when it returns a result
get_cached_result(key) ==
    json_loads(dict_get(redis_client.entries, key, json_dumps(None)))

\* redis_client after cache_result(key, result)
cache_result(key, analysis) ==
    IF redis_client.connected
    THEN Redis(dict_from_items(Append(redis_client.entries, <<key, json_dumps(analysis)>>)))
    ELSE redis_client

\* the key of a request to /api/skill-gap/analyze
cache_key_of(request) ==
    get_cache_key(request.resume_text, request.job_text, request.strategy)

\* the endpoint is about to answer the request from the cache
served_from_cache(request) ==
    /\ truthy(request.resume_text)
    /\ request.use_cache
    /\ has_cached_result(cache_key_of(request))

\* what /api/skill-gap/analyze answers when it computes: the strategy is
\* validated, the engine is given the texts and detailed, and a simple analysis
\* with missing skills gets recommendations
computed_response(request) ==
    json_response(json_analysis(request, validated_strategy(request.strategy)),
                  request.detailed)

\* redis_client after a computed response: a result is cached when use_cache
\* is set; an HTTPException leaves the function before cache_result
redis_client_after(request, response) ==
    IF request.use_cache /\ response.raised = "none"
    THEN cache_result(cache_key_of(request), response.value)
    ELSE redis_client

(***************************************************************************)
(* Inputs                                                                  *)
(***************************************************************************)

\* every concatenation of at most n of the pieces
RECURSIVE Concats(_, _)
Concats(pieces, n) ==
    IF n = 0 THEN {<<>>}
    ELSE LET shorter == Concats(pieces, n - 1)
         IN  shorter \cup {t \o p : t \in shorter, p \in pieces}

MaxNormLen == 4

\* one character of every kind normalize_text tells apart
NormChars ==
    {<<"a">>, <<"A">>, <<"1">>, <<"+">>, <<".">>, <<" ">>, <<"\t">>,
     <<"!">>, <<"_">>, <<"U+0130">>, <<"U+00A0">>}

NormTexts == Concats(NormChars, MaxNormLen) \cup {None}

MaxPieces == 3

\* words and word parts of the vocabulary tables, and separators
TextPieces ==
    {s_java, <<"s", "c", "r", "i", "p", "t">>, s_node, <<".", "j", "s">>, s_react,
     <<" ", "n", "a", "t", "i", "v", "e">>, <<"c">>, <<"+">>, <<"#">>, <<" ">>, <<",">>, <<"X">>}

\* "I used ReactJS and Python daily."
ScenarioText ==
    <<"I", " ", "u", "s", "e", "d", " ", "R", "e", "a", "c", "t", "J", "S", " ",
      "a", "n", "d", " ", "P", "y", "t", "h", "o", "n", " ", "d", "a", "i", "l", "y", ".">>

\* "Version control with Git"
VersionControlText ==
    <<"V", "e", "r", "s", "i", "o", "n", " ", "c", "o", "n", "t", "r", "o", "l", " ",
      "w", "i", "t", "h", " ", "G", "i", "t">>

ExactTexts == Concats(TextPieces, MaxPieces) \cup {ScenarioText, VersionControlText}

(***************************************************************************)
(* The state machine                                                       *)
(***************************************************************************)

MaxDocPieces == 2

\* the parts of a resume or of a job description
DocPieces ==
    {<<"P", "y", "t", "h", "o", "n", ",", " ">>,
     <<"e", "x", "p", "e", "r", "i", "e", "n", "c", "e", " ", "w", "i", "t", "h", " ", "R", "e", "a", "c", "t", "J", "S", " ", "a", "n", "d", " ">>,
     <<"J", "a", "v", "a", " ", "d", "e", "v", "e", "l", "o", "p", "e", "r", ".", " ">>}

\* the resumes and job descriptions: up to MaxDocPieces parts in a row
Documents == Concats(DocPieces, MaxDocPieces)

\* "Experience with !, " : the phrase after the cue is a symbol that
\* normalize_text does not keep
SymbolPhraseText ==
    <<"E", "x", "p", "e", "r", "i", "e", "n", "c", "e", " ", "w", "i", "t", "h", " ", "!", ",", " ">>

MaxWeights == 2

StrategyNames == <<"exact", "fuzzy", "semantic", "contextual">>

WeightValues == {Rat(-1, 1), Rat(1, 2), Rat(2, 1)}

\* the strategy_weights a caller gives: none, or weights for up to MaxWeights
\* of the strategies; a weight is any float, a negative one as well
StrategyWeights ==
    {NoWeights} \cup
    {Weights(list([n \in 1..Len(names) |-> <<StrategyNames[names[n]], values[n]>>])) :
        <<names, values>> \in
            {nv \in UNION {[1..k -> 1..Len(StrategyNames)] \X [1..k -> WeightValues] :
                              k \in 0..MaxWeights} :
                \A i \in 1..(Len(nv[1]) - 1) : nv[1][i] < nv[1][i + 1]}}

MaxThreads == 2

\* the worker threads that serve requests
Threads == 1..MaxThreads

\* a thread that serves no call
NoCall == [op |-> "idle", args |-> <<>>, pc |-> "idle", locals |-> <<>>,
           result |-> Returned(None)]

NoThreads == [t \in Threads |-> NoCall]

\* the matchers a thread calls, by name
Matchers == {"exact_match", "fuzzy_match", "semantic_match", "contextual_match", "hybrid_match"}

\* the texts of the calls that run side by side
ThreadTexts ==
    {<<"P", "y", "t", "h", "o", "n", ",", " ">>,
     <<"e", "x", "p", "e", "r", "i", "e", "n", "c", "e", " ", "w", "i", "t", "h", " ", "R", "e", "a", "c", "t", "J", "S", " ", "a", "n", "d", " ">>}

MaxLimit == 3

\* the skill names a lookup is asked about: skills of the tables as they are
\* listed, one in capitals, one that is in no category, one that is unknown
LookupSkills ==
    {s_python, <<"P", "y", "t", "h", "o", "n">>, s_cpp, s_react, s_aws, s_node, s_git,
     <<"c", "o", "b", "o", "l">>}

MaxMissing == 2

\* the lists of missing skills that recommendations are asked for
MissingSkills == {s_python, s_cpp, s_react, s_docker, s_git}

MissingSkillLists ==
    UNION {[1..k -> MissingSkills] : k \in 0..MaxMissing}

\* what a caller of the engine can pass as strategy: a member of
\* MatchingStrategy, or a value that is none ("'fuzzy'" is the str 'fuzzy',
\* which is not the member MatchingStrategy.FUZZY)
EngineStrategies == MatchingStrategy \cup {"'fuzzy'", "None"}

\* the strategy names of a request: hybrid, EXACT, fuzzy, and the unknown best
RequestStrategies ==
    {v_hybrid, <<"E", "X", "A", "C", "T">>, v_fuzzy, <<"b", "e", "s", "t">>}

\* the texts of a request: one part of a document, or nothing
RequestTexts == DocPieces \cup {<<>>}

\* the bodies of the requests to /api/skill-gap/analyze-json
AnalysisRequests ==
    [resume_text : RequestTexts, job_text : RequestTexts,
     strategy : RequestStrategies, detailed : BOOLEAN]

\* the bodies of the requests to /api/skill-gap/analyze: a resume text or
\* none, the job text "Python, ", the strategy hybrid or the unknown best
FormRequests ==
    [resume_text : ThreadTexts \cup {<<>>},
     job_text : {<<"P", "y", "t", "h", "o", "n", ",", " ">>},
     strategy : {v_hybrid, <<"b", "e", "s", "t">>}, detailed : BOOLEAN, use_cache : BOOLEAN]

\* the keyword arguments of update_config: a boost above 1, a boost below 1,
\* a semantic threshold below 0
ConfigUpdates ==
    {<<"exact_match_boost", Rat(2, 1)>>, <<"exact_match_boost", Rat(1, 2)>>,
     <<"semantic_threshold", Rat(-1, 5)>>}

Vocabularies ==
    {<<CodeSkillsTable, CodeSynonymsTable>>,
     <<ScenarioSkillsTable, ScenarioSynonymsTable>>,
     <<NodeSkillsTable, NodeSynonymsTable>>,
     <<(<<>>), (<<>>)>>}

MaxTrained == 2

\* DataProcessor.__init__ over a category table and a synonym table
InitStore(table, synonyms) ==
    /\ skills_db = table
    /\ canonical_skills = flatten_skills(table)
    /\ skill_categories = categorize(table)
    /\ skill_synonyms = synonyms
    /\ recommendations = load_recommendations(flatten_skills(table))
    /\ variant_to_canonical = build_variant_to_canonical(flatten_skills(table), synonyms)
    /\ sorted_variants =
           sort_longest_first(dict_keys(build_variant_to_canonical(flatten_skills(table), synonyms)))

\* SkillMatcher.__init__
InitMatcher ==
    /\ config = DefaultConfig
    /\ trained \in 0..MaxTrained

Init ==
    /\ \E v \in Vocabularies : InitStore(v[1], v[2])
    /\ InitMatcher
    /\ op = "idle" /\ args = <<>> /\ result = Returned(None)
    /\ threads = NoThreads
    /\ redis_client = NoRedis

Store == <<skills_db, canonical_skills, skill_categories, skill_synonyms,
           variant_to_canonical, sorted_variants, recommendations>>

\* The caller takes the result: the engine is ready for the next call.
Return ==
    /\ op # "idle"
    /\ op' = "idle" /\ args' = <<>> /\ result' = Returned(None)
    /\ UNCHANGED <<Store, config, trained, threads, redis_client>>

NormalizeText ==
    /\ op = "idle"
    /\ \E text \in NormTexts :
        /\ op' = "normalize_text"
        /\ args' = <<text>>
        /\ result' = Returned(normalize_text(text))
        /\ UNCHANGED <<Store, config, trained, threads, redis_client>>

ExactMatch ==
    /\ op = "idle"
    /\ \E text \in ExactTexts :
        /\ op' = "exact_match"
        /\ args' = <<text>>
        /\ result' = Returned(exact_match(text))
        /\ UNCHANGED <<Store, config, trained, threads, redis_client>>

HybridMatch ==
    /\ op = "idle"
    /\ \E text \in Documents \cup {VersionControlText}, strategy_weights \in StrategyWeights :
        /\ op' = "hybrid_match"
        /\ args' = <<text, strategy_weights>>
        /\ result' = hybrid_match(text, strategy_weights)
        /\ UNCHANGED <<Store, config, trained, threads, redis_client>>

AnalyzeSkillGap ==
    /\ op = "idle"
    /\ \E resume_text \in Documents, job_text \in Documents, detailed \in BOOLEAN :
        /\ op' = "analyze_skill_gap"
        /\ args' = <<resume_text, job_text, detailed>>
        /\ result' = analyze_skill_gap(resume_text, job_text, detailed)
        /\ UNCHANGED <<Store, config, trained, threads, redis_client>>

GetSkillCategory ==
    /\ op = "idle"
    /\ \E skill \in LookupSkills :
        /\ op' = "get_skill_category"
        /\ args' = <<skill>>
        /\ result' = Returned(get_skill_category(skill))
        /\ UNCHANGED <<Store, config, trained, threads, redis_client>>

GetRelatedSkills ==
    /\ op = "idle"
    /\ \E skill \in LookupSkills, limit \in 0..MaxLimit :
        /\ op' = "get_related_skills"
        /\ args' = <<skill, limit>>
        /\ result' = Returned(get_related_skills(skill, limit))
        /\ UNCHANGED <<Store, config, trained, threads, redis_client>>

GetSkillRecommendations ==
    /\ op = "idle"
    /\ \E missing_skills \in MissingSkillLists :
        /\ op' = "get_skill_recommendations"
        /\ args' = <<missing_skills>>
        /\ result' = Returned(recommended(missing_skills))
        /\ recommendations' = recommendations_after(missing_skills)
        /\ UNCHANGED <<skills_db, canonical_skills, skill_categories, skill_synonyms,
                       variant_to_canonical, sorted_variants, config, trained, threads, redis_client>>

MatchSkills ==
    /\ op = "idle"
    /\ \E text \in Documents, strategy \in EngineStrategies :
        /\ op' = "match_skills"
        /\ args' = <<text, strategy>>
        /\ result' = match_skills(text, strategy)
        /\ UNCHANGED <<Store, config, trained, threads, redis_client>>

MatchSkillsDetailed ==
    /\ op = "idle"
    /\ \E text \in Documents, strategy \in EngineStrategies :
        /\ op' = "match_skills_detailed"
        /\ args' = <<text, strategy>>
        /\ result' = match_skills_detailed(text, strategy)
        /\ UNCHANGED <<Store, config, trained, threads, redis_client>>

\* POST /api/skills/extract
ExtractSkills ==
    /\ op = "idle"
    /\ \E text \in Documents, strategy \in RequestStrategies :
        /\ op' = "extract_skills"
        /\ args' = <<text, strategy>>
        /\ result' = extract_skills(text, strategy)
        /\ UNCHANGED <<Store, config, trained, threads, redis_client>>

\* POST /api/skill-gap/analyze-json
AnalyzeSkillGapJson ==
    /\ op = "idle"
    /\ \E request \in AnalysisRequests :
        \E analysis \in {json_analysis(request, validated_strategy(request.strategy))} :
            /\ op' = "analyze_skill_gap_json"
            /\ args' = <<request>>
            /\ result' = json_response(analysis, request.detailed)
            /\ recommendations' = json_recommendations_after(analysis, request.detailed)
            /\ UNCHANGED <<skills_db, canonical_skills, skill_categories, skill_synonyms,
                           variant_to_canonical, sorted_variants, config, trained, threads, redis_client>>

\* POST /api/skill-gap/analyze, with resume_text and no file
AnalyzeSkillGapForm ==
    /\ op = "idle"
    /\ \E request \in FormRequests :
        /\ op' = "api.analyze_skill_gap"
        /\ args' = <<request>>
        /\ IF ~truthy(request.resume_text)
           THEN /\ result' = Raised("HTTPException")
                /\ UNCHANGED <<recommendations, redis_client>>
           ELSE IF served_from_cache(request)
           THEN /\ result' = Returned(get_cached_result(cache_key_of(request)))
                /\ UNCHANGED <<recommendations, redis_client>>
           ELSE \E analysis \in {json_analysis(request, validated_strategy(request.strategy))} :
                  \E response \in {json_response(analysis, request.detailed)} :
                    /\ result' = response
                    /\ recommendations' = json_recommendations_after(analysis, request.detailed)
                    /\ redis_client' = redis_client_after(request, response)
        /\ UNCHANGED <<skills_db, canonical_skills, skill_categories, skill_synonyms,
                       variant_to_canonical, sorted_variants, config, trained, threads>>

\* The Redis server drops a key whose time has run out (setex, 3600 seconds).
ExpireCached ==
    /\ redis_client.connected
    /\ \E k \in 1..Len(redis_client.entries) :
        redis_client' = Redis(SelectSeq(redis_client.entries,
                                        LAMBDA item : item # redis_client.entries[k]))
    /\ UNCHANGED <<Store, config, trained, threads, op, args, result>>

FuzzyMatch ==
    /\ op = "idle"
    /\ \E text \in Documents :
        /\ op' = "fuzzy_match"
        /\ args' = <<text>>
        /\ result' = Returned(fuzzy_match(text))
        /\ UNCHANGED <<Store, config, trained, threads, redis_client>>

SemanticMatch ==
    /\ op = "idle"
    /\ \E text \in Documents :
        /\ op' = "semantic_match"
        /\ args' = <<text>>
        /\ result' = Returned(semantic_match(text, DefaultTopK))
        /\ UNCHANGED <<Store, config, trained, threads, redis_client>>

ContextualMatch ==
    /\ op = "idle"
    /\ \E text \in Documents \cup {SymbolPhraseText} :
        /\ op' = "contextual_match"
        /\ args' = <<text>>
        /\ result' = Returned(contextual_match(text))
        /\ UNCHANGED <<Store, config, trained, threads, redis_client>>

UpdateConfig ==
    /\ op = "idle"
    /\ \E kwargs \in ConfigUpdates :
        /\ op' = "update_config"
        /\ args' = <<kwargs>>
        /\ result' = Returned(None)
        /\ config' = update_config(kwargs[1], kwargs[2])
        /\ UNCHANGED <<Store, trained, threads, redis_client>>

\* the call matcher(text) of a thread
run_matcher(matcher, text) ==
    IF matcher = "exact_match" THEN Returned(exact_match(text))
    ELSE IF matcher = "fuzzy_match" THEN Returned(fuzzy_match(text))
    ELSE IF matcher = "semantic_match" THEN Returned(semantic_match(text, DefaultTopK))
    ELSE IF matcher = "contextual_match" THEN Returned(contextual_match(text))
    ELSE hybrid_match(text, NoWeights)

\* the first statements of analyze_skill_gap: the matches of the resume
resume_side(resume_text, detailed) ==
    IF detailed THEN match_skills_detailed(resume_text, "hybrid")
    ELSE match_skills(resume_text, "hybrid")

\* the rest of analyze_skill_gap: the matches of the job text and the analysis
job_side(resume_matches, job_text, detailed) ==
    IF detailed THEN detailed_gap(resume_matches, match_skills_detailed(job_text, "hybrid"))
    ELSE simple_gap(resume_matches, match_skills(job_text, "hybrid"))

\* A thread takes a request that calls a matcher.
BeginMatch(t) ==
    /\ threads[t].pc = "idle"
    /\ \E matcher \in Matchers, text \in ThreadTexts :
        threads' = [threads EXCEPT ![t] =
                       [op |-> matcher, args |-> <<text>>, pc |-> "called",
                        locals |-> <<>>, result |-> Returned(None)]]
    /\ UNCHANGED <<Store, config, trained, op, args, result, redis_client>>

\* The thread runs a matcher that leaves a boost installed in the shared
\* configuration.
RunMatchBoosting(t) ==
    /\ threads[t].pc = "called"
    /\ threads[t].op \in Matchers
    /\ threads' = [threads EXCEPT ![t].pc = "done",
                                  ![t].result = run_matcher(threads[t].op, threads[t].args[1])]
    /\ config' = update_config("exact_match_boost", Rat(2, 1))
    /\ UNCHANGED <<Store, trained, op, args, result, redis_client>>

\* The thread runs the matcher.
RunMatch(t) ==
    /\ threads[t].pc = "called"
    /\ threads[t].op \in Matchers
    /\ threads' = [threads EXCEPT ![t].pc = "done",
                                  ![t].result = run_matcher(threads[t].op, threads[t].args[1])]
    /\ UNCHANGED <<Store, config, trained, op, args, result, redis_client>>

\* A thread takes a request that calls analyze_skill_gap.
BeginGap(t) ==
    /\ threads[t].pc = "idle"
    /\ \E resume_text \in ThreadTexts, job_text \in ThreadTexts, detailed \in BOOLEAN :
        threads' = [threads EXCEPT ![t] =
                       [op |-> "analyze_skill_gap", args |-> <<resume_text, job_text, detailed>>,
                        pc |-> "called", locals |-> <<>>, result |-> Returned(None)]]
    /\ UNCHANGED <<Store, config, trained, op, args, result, redis_client>>

\* The thread matches the resume; other threads may run before it goes on.
MatchResume(t) ==
    /\ threads[t].pc = "called"
    /\ threads[t].op = "analyze_skill_gap"
    /\ threads' = [threads EXCEPT ![t].pc = "resume_matched",
                                  ![t].locals = <<resume_side(threads[t].args[1],
                                                              threads[t].args[3])>>]
    /\ UNCHANGED <<Store, config, trained, op, args, result, redis_client>>

\* The thread matches the job text and builds the analysis.
MatchJob(t) ==
    /\ threads[t].pc = "resume_matched"
    /\ threads' = [threads EXCEPT ![t].pc = "done",
                                  ![t].result = job_side(threads[t].locals[1],
                                                         threads[t].args[2],
                                                         threads[t].args[3])]
    /\ UNCHANGED <<Store, config, trained, op, args, result, redis_client>>

\* The response is sent: the thread is free for the next request.
TakeResult(t) ==
    /\ threads[t].pc = "done"
    /\ threads' = [threads EXCEPT ![t] = NoCall]
    /\ UNCHANGED <<Store, config, trained, op, args, result, redis_client>>

\* normalize_text over every short string of the characters it tells apart
InitNormalize ==
    /\ InitStore(CodeSkillsTable, CodeSynonymsTable)
    /\ config = DefaultConfig /\ trained = 0
    /\ op = "idle" /\ args = <<>> /\ result = Returned(None)
    /\ threads = NoThreads
    /\ redis_client = NoRedis

NextNormalize ==
    \/ NormalizeText
    \/ Return

SpecNormalize == InitNormalize /\ [][NextNormalize]_vars

\* exact_match over every vocabulary and every text of a few word parts
InitExact ==
    /\ \E v \in Vocabularies : InitStore(v[1], v[2])
    /\ config = DefaultConfig /\ trained = 0
    /\ op = "idle" /\ args = <<>> /\ result = Returned(None)
    /\ threads = NoThreads
    /\ redis_client = NoRedis

NextExact ==
    \/ ExactMatch
    \/ Return

SpecExact == InitExact /\ [][NextExact]_vars

\* the vocabularies of the matcher that reads whole documents
DocumentVocabularies ==
    {<<CodeSkillsTable, CodeSynonymsTable>>,
     <<ScenarioSkillsTable, ScenarioSynonymsTable>>}

\* hybrid_match over the documents and the weights a caller can give
InitHybrid ==
    /\ \E v \in DocumentVocabularies : InitStore(v[1], v[2])
    /\ InitMatcher
    /\ op = "idle" /\ args = <<>> /\ result = Returned(None)
    /\ threads = NoThreads
    /\ redis_client = NoRedis

NextHybrid ==
    \/ HybridMatch
    \/ Return

SpecHybrid == InitHybrid /\ [][NextHybrid]_vars

\* analyze_skill_gap over every pair of documents, in both modes
InitGap ==
    /\ \E v \in DocumentVocabularies : InitStore(v[1], v[2])
    /\ InitMatcher
    /\ op = "idle" /\ args = <<>> /\ result = Returned(None)
    /\ threads = NoThreads
    /\ redis_client = NoRedis

NextGap ==
    \/ AnalyzeSkillGap
    \/ Return

SpecGap == InitGap /\ [][NextGap]_vars

\* the lookups of the vocabulary store, over every vocabulary
InitLookup ==
    /\ \E v \in Vocabularies : InitStore(v[1], v[2])
    /\ config = DefaultConfig /\ trained = 0
    /\ op = "idle" /\ args = <<>> /\ result = Returned(None)
    /\ threads = NoThreads
    /\ redis_client = NoRedis

NextLookup ==
    \/ GetSkillCategory
    \/ GetRelatedSkills
    \/ GetSkillRecommendations
    \/ Return

SpecLookup == InitLookup /\ [][NextLookup]_vars

\* the entry points of the engine that take a strategy
InitStrategy ==
    /\ \E v \in DocumentVocabularies : InitStore(v[1], v[2])
    /\ InitMatcher
    /\ op = "idle" /\ args = <<>> /\ result = Returned(None)
    /\ threads = NoThreads
    /\ redis_client = NoRedis

NextStrategy ==
    \/ MatchSkills
    \/ MatchSkillsDetailed
    \/ Return

SpecStrategy == InitStrategy /\ [][NextStrategy]_vars

\* the endpoints of the API that take a strategy
InitApi ==
    /\ \E v \in DocumentVocabularies : InitStore(v[1], v[2])
    /\ InitMatcher
    /\ op = "idle" /\ args = <<>> /\ result = Returned(None)
    /\ threads = NoThreads
    /\ redis_client = NoRedis

NextApi ==
    \/ ExtractSkills
    \/ AnalyzeSkillGapJson
    \/ Return

SpecApi == InitApi /\ [][NextApi]_vars

\* the vocabularies of the matchers: a vocabulary with skills, and none
MatcherVocabularies ==
    {<<ScenarioSkillsTable, ScenarioSynonymsTable>>, <<(<<>>), (<<>>)>>}

\* every matcher and the gap analysis, with a vocabulary and with none
InitMatchers ==
    /\ \E v \in MatcherVocabularies : InitStore(v[1], v[2])
    /\ InitMatcher
    /\ op = "idle" /\ args = <<>> /\ result = Returned(None)
    /\ threads = NoThreads
    /\ redis_client = NoRedis

NextMatchers ==
    \/ ExactMatch
    \/ FuzzyMatch
    \/ SemanticMatch
    \/ ContextualMatch
    \/ HybridMatch
    \/ AnalyzeSkillGap
    \/ Return

SpecMatchers == InitMatchers /\ [][NextMatchers]_vars

\* the four matchers under the configurations update_config installs
InitConfig ==
    /\ \E v \in DocumentVocabularies : InitStore(v[1], v[2])
    /\ InitMatcher
    /\ op = "idle" /\ args = <<>> /\ result = Returned(None)
    /\ threads = NoThreads
    /\ redis_client = NoRedis

NextConfig ==
    \/ UpdateConfig
    \/ ExactMatch
    \/ FuzzyMatch
    \/ SemanticMatch
    \/ ContextualMatch
    \/ Return

SpecConfig == InitConfig /\ [][NextConfig]_vars

\* matching calls of several threads, their steps in any order
InitConcurrent ==
    /\ InitStore(ScenarioSkillsTable, ScenarioSynonymsTable)
    /\ InitMatcher
    /\ op = "idle" /\ args = <<>> /\ result = Returned(None)
    /\ threads = NoThreads
    /\ redis_client = NoRedis

NextConcurrent ==
    \/ \E t \in Threads : BeginMatch(t)
    \/ \E t \in Threads : RunMatch(t)
    \/ \E t \in Threads : BeginGap(t)
    \/ \E t \in Threads : MatchResume(t)
    \/ \E t \in Threads : MatchJob(t)
    \/ \E t \in Threads : TakeResult(t)

SpecConcurrent == InitConcurrent /\ [][NextConcurrent]_vars

\* /api/skill-gap/analyze with Redis reached at startup, or not reached
InitCache ==
    /\ InitStore(CodeSkillsTable, CodeSynonymsTable)
    /\ config = DefaultConfig /\ trained = 0
    /\ op = "idle" /\ args = <<>> /\ result = Returned(None)
    /\ threads = NoThreads
    /\ redis_client \in {NoRedis, Redis(<<>>)}

NextCache ==
    \/ AnalyzeSkillGapForm
    \/ ExpireCached
    \/ Return

SpecCache == InitCache /\ [][NextCache]_vars

Next ==
    \/ NormalizeText
    \/ ExactMatch
    \/ HybridMatch
    \/ AnalyzeSkillGap
    \/ GetSkillCategory
    \/ GetRelatedSkills
    \/ GetSkillRecommendations
    \/ MatchSkills
    \/ MatchSkillsDetailed
    \/ ExtractSkills
    \/ AnalyzeSkillGapJson
    \/ FuzzyMatch
    \/ SemanticMatch
    \/ ContextualMatch
    \/ UpdateConfig
    \/ AnalyzeSkillGapForm
    \/ ExpireCached
    \/ \E t \in Threads : BeginMatch(t)
    \/ \E t \in Threads : RunMatch(t)
    \/ \E t \in Threads : BeginGap(t)
    \/ \E t \in Threads : MatchResume(t)
    \/ \E t \in Threads : MatchJob(t)
    \/ \E t \in Threads : TakeResult(t)
    \/ Return

Spec == Init /\ [][Next]_vars

(***************************************************************************)
(* Properties of hybrid_match and analyze_skill_gap                        *)
(***************************************************************************)

\* the skill names that match_skills gives for a text
matched_in(text) == skills_of(hybrid_match(text, NoWeights).value)

\* a list of str values in ascending order, no value twice
strictly_ascending(strs) ==
    \A i \in 1..(Len(strs) - 1) : str_lt(strs[i], strs[i + 1])

\* C1: in non-detailed mode analyze_skill_gap returns as matched_skills the
\* skills matched in both texts, as missing_skills the skills matched in the
\* target text and not in the source text, as additional_skills the skills
\* matched in the source text and not in the target text, each as a list in
\* alphabetical order that names no skill twice.
C1_SimpleGapSets ==
    (op = "analyze_skill_gap" /\ ~args[3]) =>
        LET S == matched_in(args[1])
            T == matched_in(args[2])
        IN  /\ result.raised = "none"
            /\ ToSet(result.value.matched_skills) = S \cap T
            /\ ToSet(result.value.missing_skills) = T \ S
            /\ ToSet(result.value.additional_skills) = S \ T
            /\ strictly_ascending(result.value.matched_skills)
            /\ strictly_ascending(result.value.missing_skills)
            /\ strictly_ascending(result.value.additional_skills)

\* a non-detailed analysis with skills of all three kinds, two of them missing
C1_Witness ==
    /\ op = "analyze_skill_gap" /\ ~args[3]
    /\ result.value.matched_skills # <<>>
    /\ Len(result.value.missing_skills) >= 2
    /\ result.value.additional_skills # <<>>

\* p is n / d * 100 rounded to two decimals: a number of hundredths, none of
\* which is nearer to n / d * 100, and the even one of two equally near
is_rounded_percent(p, n, d) ==
    LET hundredths == p[1] * (100 \div p[2])
        error == abs(hundredths * d - n * 10000)
    IN  /\ 100 % p[2] = 0
        /\ 2 * error <= d
        /\ 2 * error = d => hundredths % 2 = 0

\* C2: in both modes match_percentage is the number of matched skills divided
\* by the number of skills of the target text, times 100, rounded to two
\* decimals, when the target text has a skill, and is 0 when it has none; the
\* call never raises, and with no skill in the target text matched_skills and
\* missing_skills are empty.
C2_MatchPercentage ==
    op = "analyze_skill_gap" =>
        LET n_target == Cardinality(matched_in(args[2]))
        IN  /\ result.raised = "none"
            /\ n_target # 0 =>
                   is_rounded_percent(result.value.match_percentage,
                                      Len(result.value.matched_skills), n_target)
            /\ n_target = 0 =>
                   /\ result.value.match_percentage = <<0, 1>>
                   /\ result.value.matched_skills = <<>>
                   /\ result.value.missing_skills = <<>>

\* a detailed analysis whose percentage is not a whole number of hundredths
\* before it is rounded
C2_Witness ==
    /\ op = "analyze_skill_gap" /\ args[3]
    /\ result.value.total_job_skills # 0
    /\ (Len(result.value.matched_skills) * 10000) % result.value.total_job_skills # 0
    /\ result.value.total_resume_skills # result.value.total_job_skills

\* C3: in non-detailed mode missing_skills of analyze_skill_gap(A, B) equals
\* additional_skills of analyze_skill_gap(B, A), and the two calls have the
\* same matched_skills.
C3_SimpleSymmetry ==
    (op = "analyze_skill_gap" /\ ~args[3]) =>
        LET back == analyze_skill_gap(args[2], args[1], FALSE)
        IN  /\ result.value.missing_skills = back.value.additional_skills
            /\ result.value.matched_skills = back.value.matched_skills

\* two different texts with a skill in common, a skill only the first has and
\* a skill only the second has
C3_Witness ==
    /\ op = "analyze_skill_gap" /\ ~args[3]
    /\ args[1] # args[2]
    /\ result.value.matched_skills # <<>>
    /\ result.value.missing_skills # <<>>
    /\ result.value.additional_skills # <<>>
    /\ Len(result.value.missing_skills) # Len(result.value.additional_skills)

\* C4 as stated: in detailed mode the missing_skills mapping of
\* analyze_skill_gap(A, B) equals the additional_skills mapping of
\* analyze_skill_gap(B, A), and the two calls have equal matched_skills
\* mappings.
C4_DetailedSymmetry ==
    (op = "analyze_skill_gap" /\ args[3]) =>
        LET back == analyze_skill_gap(args[2], args[1], TRUE)
        IN  /\ ToSet(result.value.missing_skills) = ToSet(back.value.additional_skills)
            /\ ToSet(result.value.matched_skills) = ToSet(back.value.matched_skills)

\* C4: in detailed mode the missing_skills mapping of analyze_skill_gap(A, B)
\* and the additional_skills mapping of analyze_skill_gap(B, A) have the same
\* skills, each with the same confidence and category, and every missing entry
\* has a recommendations value besides; the matched_skills mappings of the two
\* calls have the same skills and categories, with resume_confidence and
\* job_confidence exchanged.
C4_DetailedSymmetryOfScores ==
    (op = "analyze_skill_gap" /\ args[3]) =>
        LET back == analyze_skill_gap(args[2], args[1], TRUE)
            missing == result.value.missing_skills
            matched == result.value.matched_skills
        IN  /\ {<<missing[n][1], missing[n][2].confidence, missing[n][2].category>> :
                    n \in 1..Len(missing)}
               = {<<item[1], item[2].confidence, item[2].category>> :
                    item \in ToSet(back.value.additional_skills)}
            /\ \A n \in 1..Len(missing) :
                   DOMAIN missing[n][2] = {"confidence", "category", "recommendations"}
            /\ \A item \in ToSet(back.value.additional_skills) :
                   DOMAIN item[2] = {"confidence", "category"}
            /\ {<<matched[n][1], matched[n][2].resume_confidence,
                  matched[n][2].job_confidence, matched[n][2].category>> :
                    n \in 1..Len(matched)}
               = {<<item[1], item[2].job_confidence, item[2].resume_confidence,
                    item[2].category>> :
                    item \in ToSet(back.value.matched_skills)}

\* a detailed analysis with a missing skill and with a matched skill whose two
\* confidences differ
C4_Witness ==
    /\ op = "analyze_skill_gap" /\ args[3]
    /\ result.value.missing_skills # <<>>
    /\ \E n \in 1..Len(result.value.matched_skills) :
           result.value.matched_skills[n][2].resume_confidence
               # result.value.matched_skills[n][2].job_confidence

C9_NormalizeIdempotent ==
    op = "normalize_text" => normalize_text(result.value) = result.value

\* an input that normalization changes into a non-empty string
C9_Witness ==
    /\ op = "normalize_text"
    /\ result.value # <<>>
    /\ result.value # args[1]
    /\ \E i \in 1..Len(args[1]) : args[1][i] \in Whitespace
    /\ \E i \in 1..Len(args[1]) : args[1][i] \notin LowerLetters \cup Digits \cup TechSymbols \cup Whitespace

\* C10: the result.value of normalize_text holds only characters of [a-z0-9+.#/-] and
\* single spaces, neither starts nor ends with a space, has no two spaces in a
\* row, and is empty for an empty or null input.
C10_NormalizedForm ==
    op = "normalize_text" =>
        /\ \A i \in 1..Len(result.value) :
               result.value[i] \in LowerLetters \cup Digits \cup TechSymbols \cup {" "}
        /\ result.value # <<>> => result.value[1] # " " /\ result.value[Len(result.value)] # " "
        /\ \A i \in 1..(Len(result.value) - 1) : ~(result.value[i] = " " /\ result.value[i + 1] = " ")
        /\ (args[1] = <<>> \/ args[1] = None) => result.value = <<>>

\* an input with whitespace at an end and a character outside the kept set
C10_Witness ==
    /\ op = "normalize_text"
    /\ args[1] # None
    /\ Len(args[1]) >= 3
    /\ args[1][1] \in Whitespace
    /\ args[1][Len(args[1])] \in Whitespace
    /\ \E i \in 1..Len(args[1]) : args[1][i] \in {"!", "_", "A", "U+0130"}
    /\ result.value # <<>>

(***************************************************************************)
(* Properties of exact_match                                               *)
(***************************************************************************)

is_alnum(text, i) ==
    i >= 1 /\ i <= Len(text) /\ text[i] \in LowerLetters \cup UpperLetters \cup Digits

\* the part stands at i as a whole token: the text starts or a space stands
\* before it, and the text ends or a space stands after it
stands_as_token(text, part, i) ==
    /\ i \in occurrences(text, part)
    /\ i = 1 \/ text[i - 1] = " "
    /\ i + Len(part) - 1 = Len(text) \/ text[i + Len(part)] = " "

\* C6: with "node" and "node.js" two distinct canonical skills, a text in which
\* "node.js" stands as a token and "node" occurs nowhere but at the start of a
\* "node.js" gets the skill "node.js" from exact_match and not the skill "node".
C6_LongerVariantOnly ==
    LET normalized == normalize_text(args[1])
    IN  ( /\ op = "exact_match"
          /\ canonical_of(s_node) = s_node
          /\ canonical_of(s_node_js) = s_node_js
          /\ \E i \in 1..Len(normalized) : stands_as_token(normalized, s_node_js, i)
          /\ occurrences(normalized, s_node) \subseteq occurrences(normalized, s_node_js) )
        => /\ s_node_js \in skills_of(result.value)
           /\ s_node \notin skills_of(result.value)

\* C7: a variant made of letters and digits that occurs in the normalized text
\* only inside a longer run of letters and digits, while no other variant of its
\* skill occurs in the text at all, gives no match for its skill.
C7_WholeWordOnly ==
    LET normalized == normalize_text(args[1])
        embedded(v) ==
            /\ \A i \in 1..Len(v) : is_alnum(v, i)
            /\ occurrences(normalized, v) # {}
            /\ \A i \in occurrences(normalized, v) :
                   is_alnum(normalized, i - 1) \/ is_alnum(normalized, i + Len(v))
        alone(v) ==
            \A k \in 1..Len(sorted_variants) :
                ( /\ sorted_variants[k] # v
                  /\ canonical_of(sorted_variants[k]) = canonical_of(v) )
                => occurrences(normalized, sorted_variants[k]) = {}
    IN  op = "exact_match" =>
            \A k \in 1..Len(sorted_variants) :
                (embedded(sorted_variants[k]) /\ alone(sorted_variants[k]))
                => canonical_of(sorted_variants[k]) \notin skills_of(result.value)

\* "java" occurs only inside "javascript": the skill javascript is matched and
\* the skill java is not
C7_Witness ==
    /\ op = "exact_match"
    /\ canonical_of(s_java) = s_java
    /\ occurrences(normalize_text(args[1]), s_javascript) # {}
    /\ occurrences(normalize_text(args[1]), s_java) = occurrences(normalize_text(args[1]), s_javascript)
    /\ s_javascript \in skills_of(result.value)
    /\ s_java \notin skills_of(result.value)

\* C8: in a vocabulary with the skill python and with the synonyms react,
\* reactjs, react.js of react, exact_match of "I used ReactJS and Python daily."
\* gives one match for python and one for react, and nothing else.
C8_ScenarioExact ==
    ( /\ op = "exact_match"
      /\ args[1] = ScenarioText
      /\ canonical_of(s_python) = s_python
      /\ dict_has(skill_synonyms, s_react)
      /\ {s_react, s_reactjs, s_react_js} \subseteq ToSet(dict_get(skill_synonyms, s_react, <<>>)) )
    => /\ skills_of(result.value) = {s_python, s_react}
       /\ Len(result.value) = 2

\* the scenario's text matched under the scenario's own vocabulary
C8_Witness ==
    /\ op = "exact_match"
    /\ args[1] = ScenarioText
    /\ dict_keys(skill_categories) = <<s_python, s_react, s_aws, s_docker, s_machine_learning>>
    /\ dict_get(skill_synonyms, s_react, <<>>) = <<s_react, s_reactjs, s_react_js>>
    /\ skills_of(result.value) = {s_python, s_react}

(***************************************************************************)
(* Properties of the vocabulary store and its lookups                      *)
(***************************************************************************)

\* the categories of the category table that list the skill
categories_listing(skill) ==
    {k \in 1..Len(skills_db) : skill \in ToSet(skills_db[k][2])}

\* C11: once the vocabulary is built, canonical_skills holds every skill
\* exactly once, and every canonical skill is listed under exactly one category
\* of the category table.
C11_EverySkillOnce ==
    /\ \A i, j \in 1..Len(canonical_skills) :
           canonical_skills[i] = canonical_skills[j] => i = j
    /\ \A i \in 1..Len(canonical_skills) :
           Cardinality(categories_listing(canonical_skills[i])) = 1

\* part is seq with some of its items left out
RECURSIVE is_subsequence(_, _)
is_subsequence(part, seq) ==
    IF part = <<>> THEN TRUE
    ELSE IF seq = <<>> THEN FALSE
    ELSE IF Head(part) = Head(seq) THEN is_subsequence(Tail(part), Tail(seq))
    ELSE is_subsequence(part, Tail(seq))

\* C12: for every skill and every limit >= 0, get_related_skills(skill, limit)
\* returns at most limit skills, all of the category of the skill, none of them
\* the skill itself, in the order of the vocabulary; for a skill of no category
\* it returns the empty list.
C12_RelatedSkills ==
    op = "get_related_skills" =>
        /\ Len(result.value) <= args[2]
        /\ \A n \in 1..Len(result.value) :
               /\ get_skill_category(result.value[n]) = get_skill_category(args[1])
               /\ result.value[n] # args[1]
        /\ is_subsequence(result.value, canonical_skills)
        /\ get_skill_category(args[1]) = "uncategorized" => result.value = <<>>

\* C13: get_related_skills, get_skill_category and get_skill_recommendations
\* are pure: a call of any of them leaves the data of the vocabulary store
\* (canonical skills, categories, synonyms, variant index, the stored
\* recommendation entries) as it was.
C13_LookupsPure ==
    [][op' \in {"get_related_skills", "get_skill_category", "get_skill_recommendations"}
           => UNCHANGED Store]_vars

(***************************************************************************)
(* Properties of the strategy of a request                                 *)
(***************************************************************************)

\* C14: a match request whose strategy is none of exact, fuzzy, semantic,
\* contextual, hybrid fails with an error for the caller and is not served by
\* a default strategy: match_skills and match_skills_detailed raise for it.
C14_InvalidStrategyFails ==
    (op \in {"match_skills", "match_skills_detailed"} /\ args[2] \notin MatchingStrategy)
        => result.raised # "none"

\* The endpoints do validate: a request to extract_skills or to
\* analyze_skill_gap_json whose strategy is no value of MatchingStrategy, in
\* any case of letters, is answered with an HTTPException.
EndpointsRejectInvalidStrategy ==
    /\ (op = "extract_skills" /\ ~dict_has(StrategyValues, lower(args[2])))
           => result.raised = "HTTPException"
    /\ (op = "analyze_skill_gap_json" /\ ~dict_has(StrategyValues, lower(args[1].strategy)))
           => result.raised = "HTTPException"

\* the skills that the strategy of a request finds in a text
skills_by_strategy(text, strategy) ==
    ToSet(match_skills(text, strategy_of_value(lower(strategy)).value).value)

\* C17: a gap analysis requested with the strategy s takes the skills of the
\* source text and of the target text with s: its matched skills are those s
\* finds in both texts, its missing skills those s finds in the target text
\* only, its additional skills those s finds in the source text only.
C17_GapUsesRequestedStrategy ==
    (op = "analyze_skill_gap_json" /\ result.raised = "none" /\ ~args[1].detailed) =>
        /\ ToSet(result.value.matched_skills) =
               skills_by_strategy(args[1].resume_text, args[1].strategy)
               \cap skills_by_strategy(args[1].job_text, args[1].strategy)
        /\ ToSet(result.value.missing_skills) =
               skills_by_strategy(args[1].job_text, args[1].strategy)
               \ skills_by_strategy(args[1].resume_text, args[1].strategy)
        /\ ToSet(result.value.additional_skills) =
               skills_by_strategy(args[1].resume_text, args[1].strategy)
               \ skills_by_strategy(args[1].job_text, args[1].strategy)

(***************************************************************************)
(* Properties of the matchers                                              *)
(***************************************************************************)

\* C15: with an empty vocabulary exact_match, fuzzy_match, semantic_match,
\* contextual_match and hybrid_match return an empty list for every text and
\* raise nothing, and analyze_skill_gap returns empty matched, missing and
\* additional skills and the match_percentage 0.
C15_EmptyVocabulary ==
    canonical_skills = <<>> =>
        /\ op \in {"exact_match", "fuzzy_match", "semantic_match", "contextual_match",
                   "hybrid_match"}
               => result = Returned(<<>>)
        /\ op = "analyze_skill_gap" =>
               /\ result.raised = "none"
               /\ result.value.matched_skills = <<>>
               /\ result.value.missing_skills = <<>>
               /\ result.value.additional_skills = <<>>
               /\ result.value.match_percentage = <<0, 1>>

\* hybrid_match has run with an empty vocabulary on a text that is not empty,
\* with weights of the caller that sum to 0
C15_Witness ==
    /\ canonical_skills = <<>>
    /\ op = "hybrid_match"
    /\ args[1] # <<>>
    /\ ~args[2].is_none
    /\ rat_sum(dict_values(args[2].items)) = <<0, 1>>
    /\ result = Returned(<<>>)

\* C18: hybrid_match returns a list and raises nothing, for every text, the
\* empty one as well, and every weights mapping of the caller, the empty
\* mapping and a mapping whose weights sum to 0 as well.
C18_HybridNeverRaises ==
    op = "hybrid_match" => result.raised = "none"

\* C19: every SkillMatch that exact_match, fuzzy_match, semantic_match or
\* contextual_match returns has a confidence in [0, 1], under the default
\* configuration and under every configuration update_config has installed.
C19_MatcherConfidenceBounded ==
    op \in {"exact_match", "fuzzy_match", "semantic_match", "contextual_match"} =>
        \A n \in 1..Len(result.value) :
            /\ rat_le(<<0, 1>>, result.value[n].confidence)
            /\ rat_le(result.value[n].confidence, <<1, 1>>)

\* the weights hybrid_match works with for the strategy_weights it is given
weights_of(strategy_weights) ==
    IF strategy_weights.is_none THEN DefaultStrategyWeights ELSE strategy_weights.items

\* the weighted total of every skill that the strategies find in the text,
\* before the division and the clamp
weighted_totals(found) ==
    {skill_data(found, n).confidence : n \in 1..Len(found)}

\* C20: the divisor hybrid_match normalizes with, the sum of the weights of the
\* mapping, is the greatest total a skill can reach: for every mapping, one
\* that leaves strategies out as well, and every text, no skill's weighted
\* total before the clamp is above that sum.
C20_DivisorIsMaximum ==
    op = "hybrid_match" =>
        \A total \in weighted_totals(weighted_matches(strategy_matches(args[1]),
                                                      weights_of(args[2]))) :
            rat_le(total, rat_sum(dict_values(weights_of(args[2]))))

(***************************************************************************)
(* Properties of the single matchers                                       *)
(***************************************************************************)

\* the canonical skill that every document of the TF-IDF corpus was made from:
\* a skill for its own name and for each of its synonyms
RECURSIVE corpus_skills(_)
corpus_skills(skills) ==
    IF skills = <<>> THEN <<>>
    ELSE list([i \in 1..(1 + Len(dict_get(skill_synonyms, Head(skills), <<>>))) |-> Head(skills)])
         \o corpus_skills(Tail(skills))

\* the documents of the corpus that score at or above the fuzzy threshold
fuzzy_hits(similarities) ==
    {d \in 1..Len(similarities) : rat_le(config.fuzzy_threshold, similarities[d])}

\* C21: a fuzzy hit is mapped back to its own canonical skill: when a document
\* of the corpus (a skill name or one of its synonyms) scores at or above the
\* fuzzy threshold, the skill fuzzy_match reports for it is the canonical skill
\* the document was made from.
C21_FuzzyHitOwnSkill ==
    (op = "fuzzy_match" /\ canonical_skills # <<>>) =>
        skills_of(result.value) =
            {corpus_skills(canonical_skills)[d] :
                d \in fuzzy_hits(tfidf_similarities(normalize_text(args[1])))}

\* the skills that exactly one of fuzzy_match, semantic_match and
\* contextual_match reports and exact_match does not report
single_weak_signals(by_strategy) ==
    {skill \in skills_of(by_strategy[2]) \cup skills_of(by_strategy[3])
                \cup skills_of(by_strategy[4]) :
        /\ skill \notin skills_of(by_strategy[1])
        /\ Cardinality({k \in 2..4 : skill \in skills_of(by_strategy[k])}) = 1}

\* C22: under the default weights and the default configuration, a skill that
\* exactly one of fuzzy_match, semantic_match and contextual_match reports and
\* exact_match does not report is not in the result of hybrid_match.
C22_SingleWeakSignalFiltered ==
    (op = "hybrid_match" /\ args[2].is_none /\ config = DefaultConfig) =>
        single_weak_signals(strategy_matches(args[1])) \cap skills_of(result.value) = {}

\* C23: exact_match, fuzzy_match and contextual_match each return at most one
\* SkillMatch for a skill, for every text.
C23_OneMatchPerSkill ==
    op \in {"exact_match", "fuzzy_match", "contextual_match"} =>
        \A i, j \in 1..Len(result.value) :
            result.value[i].skill = result.value[j].skill => i = j

\* contextual_match has returned matches for a text in which more (phrase,
\* skill) pairs match than there are skills matched
C23_Witness ==
    /\ op = "contextual_match"
    /\ result.value # <<>>
    /\ Len(phrase_hits(technical_phrases(lower(args[1])))) > Len(result.value)

\* C24: the list hybrid_match returns is in the order of falling confidence,
\* no match before one of higher confidence, and names no skill twice.
C24_HybridSortedAndUnique ==
    (op = "hybrid_match" /\ result.raised = "none") =>
        /\ \A n \in 1..(Len(result.value) - 1) :
               rat_le(result.value[n + 1].confidence, result.value[n].confidence)
        /\ \A i, j \in 1..Len(result.value) :
               result.value[i].skill = result.value[j].skill => i = j

\* hybrid_match has returned three or more matches, not all of one confidence,
\* for a text in which several strategies found the same skill
C24_Witness ==
    /\ op = "hybrid_match"
    /\ result.raised = "none"
    /\ Len(result.value) >= 3
    /\ result.value[1].confidence # result.value[Len(result.value)].confidence
    /\ \E n \in 1..Len(result.value) : Cardinality(result.value[n].method) >= 2

\* the matches name no skill twice
one_match_per_skill(matches) ==
    \A i, j \in 1..Len(matches) : matches[i].skill = matches[j].skill => i = j

\* C25: in hybrid_match every strategy adds to the score of a skill at most
\* once: no strategy gives two matches for one skill within a call, and so
\* semantic_match returns no skill twice.
C25_StrategyCountsOnce ==
    op = "hybrid_match" =>
        \A by_strategy \in {strategy_matches(args[1])} :
            \A k \in 1..4 : one_match_per_skill(by_strategy[k])

\* C26: every skill exact_match reports is in canonical_skills: every variant
\* of the variant index resolves to a skill of canonical_skills, which has a
\* category other than 'uncategorized'.
C26_VariantsResolveToCanonical ==
    /\ \A k \in 1..Len(variant_to_canonical) :
           /\ variant_to_canonical[k][2] \in ToSet(canonical_skills)
           /\ get_skill_category(variant_to_canonical[k][2]) # "uncategorized"
    /\ op = "exact_match" =>
           \A n \in 1..Len(result.value) :
               /\ result.value[n].skill \in ToSet(canonical_skills)
               /\ result.value[n].category # "uncategorized"

\* C28: in contextual_match a phrase that normalizes to the empty string gives
\* no match: a skill is reported only if some extracted phrase has a normalized
\* form that is not empty and that contains the skill name or is contained in
\* it.
C28_EmptyPhraseMatchesNothing ==
    op = "contextual_match" =>
        \A phrases \in {technical_phrases(lower(args[1]))} :
            \A n \in 1..Len(result.value) :
                \E k \in 1..Len(phrases) :
                    /\ normalize_text(phrases[k]) # <<>>
                    /\ phrase_hits_skill(result.value[n].skill, normalize_text(phrases[k]))

\* C29: under the default weights and the default configuration, every skill
\* that exact_match reports for a text is in the result of hybrid_match for the
\* text.
C29_ExactHitsSurvive ==
    (op = "hybrid_match" /\ args[2].is_none /\ config = DefaultConfig) =>
        /\ result.raised = "none"
        /\ skills_of(exact_match(args[1])) \subseteq skills_of(result.value)

\* hybrid_match with the default weights has returned a skill that exact_match
\* alone found, with the confidence 1.0 / 3.1
C29_Witness ==
    /\ op = "hybrid_match" /\ args[2].is_none /\ config = DefaultConfig
    /\ result.raised = "none"
    /\ \E n \in 1..Len(result.value) :
           /\ result.value[n].method = {"exact"}
           /\ result.value[n].confidence = <<10, 31>>
           /\ result.value[n].skill \in skills_of(exact_match(args[1]))

\* C30: exact_match finds every variant that stands in the normalized text as
\* a whole token, between spaces or at the start or the end of the text, the
\* variants that begin or end with a symbol ("c++", "c#", ".net") as well: the
\* skill of such a variant is in the result.
C30_TokenVariantsDetected ==
    op = "exact_match" =>
        \A normalized \in {normalize_text(args[1])} :
            \A k \in 1..Len(sorted_variants) :
                (\E i \in 1..Len(normalized) :
                     stands_as_token(normalized, sorted_variants[k], i))
                => canonical_of(sorted_variants[k]) \in skills_of(result.value)

(***************************************************************************)
(* Properties of the cache of /api/skill-gap/analyze                       *)
(***************************************************************************)

\* C27: with caching enabled, after any earlier requests, a response that
\* /api/skill-gap/analyze serves from the cache is the response a fresh
\* computation gives for the same resume text, job text, strategy and
\* detailed flag.
C27_CachedEqualsFresh ==
    [][(op' = "api.analyze_skill_gap" /\ served_from_cache(args'[1]))
           => result' = computed_response(args'[1])]_vars

(***************************************************************************)

\* what the call of a thread returns when nothing else runs
run_alone(call) ==
    IF call.op = "analyze_skill_gap"
    THEN analyze_skill_gap(call.args[1], call.args[2], call.args[3])
    ELSE run_matcher(call.op, call.args[1])

\* every finished call has the result it has when run alone
FinishedCallsAsAlone ==
    \A t \in Threads : threads[t].pc = "done" => threads[t].result = run_alone(threads[t])

\* C16: no step of a matching call (exact_match, fuzzy_match, semantic_match,
\* contextual_match, hybrid_match, analyze_skill_gap) changes the shared state
\* of the process (the vocabulary indices, the trained models, the
\* configuration of the matcher), and whatever the order of the steps of the
\* calls of several threads, a call returns what it returns when run alone.
C16_ConcurrentCallsUnaffected ==
    /\ []FinishedCallsAsAlone
    /\ [][UNCHANGED <<Store, config, trained>>]_vars

\* one thread has finished a gap analysis that found a matched skill while the
\* other thread is between the two halves of its own analysis
C16_Witness ==
    \E t, u \in Threads :
        /\ threads[t].op = "analyze_skill_gap" /\ threads[t].pc = "done"
        /\ threads[t].result.raised = "none"
        /\ threads[t].result.value.matched_skills # <<>>
        /\ threads[u].op = "analyze_skill_gap" /\ threads[u].pc = "resume_matched"

====
